---- MODULE Spec2Model ----
(***************************************************************************)
(* git-metrics: history-ingestion pipeline (GitPythonCollector), its disk  *)
(* cache, the diff-stat reader and the plugin manager, as state machines.  *)
(*                                                                         *)
(* Text is modelled as a sequence of atoms.  An atom is a TLA+ string that *)
(* stands for a piece of the text: a tab, a blank, a '|', a '+', a '-', a  *)
(* digit, a leading status letter, or a run of other characters.  A line   *)
(* is a sequence of atoms, a text is a sequence of lines (joined by "\n"). *)
(***************************************************************************)
EXTENDS Integers, Sequences, FiniteSets, TLC

VARIABLES
    \* ---- collector and cache (python_git.py) ----
    now,            \* time.time() at the latest collect_history call, seconds
    cache_dir,      \* cache key -> cache file, or NoFile
    repo,           \* version (0 or 1) of the history of the repository
    last,           \* the latest collect_history call and its outcome
    since_last,     \* what happened to the environment since that call
    \* ---- log parsing (python_git.py) ----
    history,        \* the commits git is asked to print
    data,           \* stdout of the log command, as lines
    commits,        \* what parse_commit_data returned
    parse_pc,       \* "fetch" | "parse" | "map" | "done"
    workers,        \* the slices, the tasks and the pools of the running
                    \* parse_commit_data call
    \* ---- diff-stat reader (python_git.py) ----
    diff_output,    \* stdout of "git diff --stat", as lines
    changes,        \* what get_current_changes returned
    diff_pc,        \* "read" | "done"
    \* ---- plugin manager (plugins/manager.py) ----
    plugins,        \* self.plugins: the discovered plugin ids, in order
    active_plugins, \* self.active_plugins: the activated ids, in order
    behaviour,      \* what calculate of each plugin did in the latest run
    invoked,        \* the calculate calls of the latest run, in order
    metric_results, \* what calculate_metrics returned
    engine_pc,      \* "new" | "activated" | "calculated" | "analyzed"
    activation,     \* the arguments of the latest activate_plugins call
    impact,         \* the latest analyze_impact call: what analyze_impact of
                    \* each plugin did, the calls made and the mapping returned
    dataset,        \* the commit list handed to a metric's calculate
    computed,       \* which metric calculated last ("none" before any call)
    result,         \* what that calculate returned
    assessment,     \* what the metric's analyze_impact returned for result
    current_changes \* the current changes handed to analyze_impact

cacheVars == <<now, cache_dir, repo, last, since_last>>
parseVars == <<history, data, commits, parse_pc, workers>>
diffVars  == <<diff_output, changes, diff_pc>>
engineVars == <<plugins, active_plugins, behaviour, invoked, metric_results,
                engine_pc, activation, impact>>
metricVars == <<dataset, computed, result, assessment, current_changes>>
vars      == <<cacheVars, parseVars, diffVars, engineVars, metricVars>>

\* what the steps of one component leave alone
CacheFrame  == UNCHANGED <<parseVars, diffVars, engineVars, metricVars>>
ParseFrame  == UNCHANGED <<cacheVars, diffVars, engineVars, metricVars>>
DiffFrame   == UNCHANGED <<cacheVars, parseVars, engineVars, metricVars>>
EngineFrame == UNCHANGED <<cacheVars, parseVars, diffVars, metricVars>>
MetricsFrame == UNCHANGED <<cacheVars, parseVars, diffVars, engineVars>>

(***************************************************************************)
(* Bounds of the model.                                                    *)
(***************************************************************************)
MaxHistory   == 2    \* commits in a printed history
MaxDiffLines == 2    \* lines of a diff-stat output
MaxCalls     == 2    \* collect_history calls in a run
MaxIdList    == 2    \* ids in an explicit plugin_ids list

(***************************************************************************)
(* Program constants.                                                      *)
(***************************************************************************)
FreshWindow == 86400
CpuCount    == 2

(***************************************************************************)
(* Python string operations on atom sequences.                             *)
(***************************************************************************)
TAB   == "\t"
BLANK == " "
Whitespace == {TAB, BLANK}

COMMIT_START == <<"COMMIT_START">>
COMMIT_END   == <<"COMMIT_END">>

RECURSIVE LStrip(_)
LStrip(s) ==
    IF s # <<>> /\ Head(s) \in Whitespace THEN LStrip(Tail(s)) ELSE s

RECURSIVE RStrip(_)
RStrip(s) ==
    IF s # <<>> /\ s[Len(s)] \in Whitespace
    THEN RStrip(SubSeq(s, 1, Len(s) - 1)) ELSE s

\* str.strip()
Strip(s) == RStrip(LStrip(s))

\* str.split(sep) for a one-atom separator: the parts between separators
RECURSIVE SplitAcc(_, _, _, _)
SplitAcc(s, sep, cur, acc) ==
    IF s = <<>> THEN Append(acc, cur)
    ELSE IF Head(s) = sep
         THEN SplitAcc(Tail(s), sep, <<>>, Append(acc, cur))
         ELSE SplitAcc(Tail(s), sep, Append(cur, Head(s)), acc)

SplitOn(s, sep) == SplitAcc(s, sep, <<>>, <<>>)

\* str.split() with no argument: the non-empty runs between whitespace
RECURSIVE SplitWsAcc(_, _, _)
SplitWsAcc(s, cur, acc) ==
    IF s = <<>> THEN (IF cur = <<>> THEN acc ELSE Append(acc, cur))
    ELSE IF Head(s) \in Whitespace
         THEN SplitWsAcc(Tail(s), <<>>, IF cur = <<>> THEN acc ELSE Append(acc, cur))
         ELSE SplitWsAcc(Tail(s), Append(cur, Head(s)), acc)

SplitWs(s) == SplitWsAcc(s, <<>>, <<>>)

\* str.startswith(c) for a one-character prefix
StartsWith(s, c) == s # <<>> /\ s[1] = c

\* str.count(c) for a one-character pattern
RECURSIVE Count(_, _)
Count(s, c) ==
    IF s = <<>> THEN 0
    ELSE (IF Head(s) = c THEN 1 ELSE 0) + Count(Tail(s), c)

RECURSIVE Concat(_)
Concat(ss) == IF ss = <<>> THEN <<>> ELSE Head(ss) \o Concat(Tail(ss))

(***************************************************************************)
(* The log command and what git prints for it.                             *)
(*                                                                         *)
(* A commit of the repository is [hash, when, subject, body, changes]: its *)
(* hash, its commit time, its subject line, the lines of its message body  *)
(* and its name-status lines (status, tab, path).  Author and date are     *)
(* fixed texts.                                                            *)
(***************************************************************************)
\* an Optional[int] is <<>> (None) or <<n>>
None == <<>>

\* --pretty=format:COMMIT_START%n%H%n%an%n%ad%n%s%n%b%nCOMMIT_END --name-status
\* One commit prints: the start token, one line per field, the body (which
\* ends with a newline when it is not empty, so a blank line follows it), the
\* end token and then, only when the commit changed files, its name-status
\* lines and a blank line.
PrintCommit(c) ==
    <<COMMIT_START, c.hash, <<"alice">>, <<"date">>, c.subject>>
      \o c.body \o << <<>>, COMMIT_END >>
      \o (IF c.changes = <<>> THEN <<>> ELSE c.changes \o << <<>> >>)

RECURSIVE PrintLog(_)
PrintLog(hist) ==
    IF hist = <<>> THEN <<>> ELSE PrintCommit(Head(hist)) \o PrintLog(Tail(hist))

\* --since="<date>": the commits not older than since_days days
RECURSIVE SinceFilter(_, _)
SinceFilter(hist, since_time) ==
    IF hist = <<>> THEN <<>>
    ELSE (IF Head(hist).when >= since_time THEN <<Head(hist)>> ELSE <<>>)
           \o SinceFilter(Tail(hist), since_time)

\* -n <max_commits>: the first max_commits of them
FirstN(hist, n) == SubSeq(hist, 1, IF n < Len(hist) THEN n ELSE Len(hist))

fetch_commits_batch(hist, max_commits, since_days, clock) ==
    LET since  == IF since_days = None THEN hist
                  ELSE SinceFilter(hist, clock - since_days[1] * 86400)
        capped == IF max_commits = None THEN since ELSE FirstN(since, max_commits[1])
    IN  PrintLog(capped)

(***************************************************************************)
(* parse_commit_data and its helpers.                                      *)
(***************************************************************************)
\* data.split("COMMIT_START\n"): a line that is the start token and is
\* followed by a newline ends the current piece, which then ends with "\n"
\* (so its split("\n") has a trailing empty line).
RECURSIVE SplitStartAcc(_, _, _)
SplitStartAcc(ls, cur, acc) ==
    IF ls = <<>> THEN Append(acc, cur)
    ELSE IF Head(ls) = COMMIT_START /\ Tail(ls) # <<>>
         THEN SplitStartAcc(Tail(ls), <<>>, Append(acc, Append(cur, <<>>)))
         ELSE SplitStartAcc(Tail(ls), Append(cur, Head(ls)), acc)

\* data.split("COMMIT_START\n")[1:], each piece already split into lines
RawCommits(text) == Tail(SplitStartAcc(text, <<>>, <<>>))

\* additions, deletions from the status
\* a variant that maps only the statuses "A" and "D", not those that begin so
SynthCountsExact(status) ==
    IF status = <<"A">> THEN <<1, 0>>
    ELSE IF status = <<"D">> THEN <<0, 1>>
    ELSE <<1, 1>>

SynthCounts(status) ==
    IF StartsWith(status, "A") THEN <<1, 0>>
    ELSE IF StartsWith(status, "D") THEN <<0, 1>>
    ELSE <<1, 1>>

\* the body of the inner loop: one line between the fields and the end token
ParseFileLine(raw_line) ==
    LET line  == Strip(raw_line)
        parts == SplitOn(line, TAB)
    IN  IF line = <<>> THEN <<>>
        ELSE IF Len(parts) >= 2
             THEN << [filename  |-> parts[2],
                      status    |-> parts[1],
                      additions |-> SynthCounts(parts[1])[1],
                      deletions |-> SynthCounts(parts[1])[2]] >>
             ELSE <<>>

RECURSIVE ParseFiles(_, _, _)
ParseFiles(lines, i, end) ==
    IF i >= end THEN <<>>
    ELSE ParseFileLine(lines[i]) \o ParseFiles(lines, i + 1, end)

HasEnd(lines) == \E i \in 1..Len(lines) : lines[i] = COMMIT_END

\* lines.index("COMMIT_END"), as a 1-based position
EndIndex(lines) == CHOOSE i \in 1..Len(lines) :
                      /\ lines[i] = COMMIT_END
                      /\ \A j \in 1..(i - 1) : lines[j] # COMMIT_END

\* a variant that does not ask for the end token: the lines after the fourth
\* are all taken as file lines
ParseCommitNoSentinel(lines) ==
    IF Len(lines) >= 4
    THEN << [hash    |-> lines[1],
             author  |-> lines[2],
             date    |-> lines[3],
             message |-> lines[4],
             files   |-> ParseFiles(lines, 5,
                            IF HasEnd(lines) THEN EndIndex(lines) ELSE Len(lines) + 1)] >>
    ELSE <<>>

\* the body of the outer loop: the commits one raw commit adds to result
ParseCommit(lines) ==
    IF ~HasEnd(lines) THEN <<>>
    ELSE IF Len(lines) >= 4
         THEN << [hash    |-> lines[1],
                  author  |-> lines[2],
                  date    |-> lines[3],
                  message |-> lines[4],
                  files   |-> ParseFiles(lines, 5, EndIndex(lines))] >>
         ELSE <<>>

RECURSIVE parse_commits_chunk(_)
parse_commits_chunk(commits_chunk) ==
    IF commits_chunk = <<>> THEN <<>>
    ELSE ParseCommit(Head(commits_chunk)) \o parse_commits_chunk(Tail(commits_chunk))

Min(a, b) == IF a < b THEN a ELSE b

RECURSIVE SplitListLoop(_, _, _, _, _)
SplitListLoop(lst, todo, avg, remainder, i) ==
    IF todo = 0 THEN <<>>
    ELSE LET chunk_size == IF remainder > 0 THEN avg + 1 ELSE avg
             upto       == IF i + chunk_size - 1 > Len(lst) THEN Len(lst)
                           ELSE i + chunk_size - 1
         IN  <<SubSeq(lst, i, upto)>>
               \o SplitListLoop(lst, todo - 1, avg,
                                IF remainder > 0 THEN remainder - 1 ELSE remainder,
                                i + chunk_size)

\* a split into at most as many slices as there are elements
split_list_min(lst, num_chunks) ==
    IF lst = <<>> THEN <<>>
    ELSE SplitListLoop(lst, Min(num_chunks, Len(lst)),
                       Len(lst) \div Min(num_chunks, Len(lst)),
                       Len(lst) % Min(num_chunks, Len(lst)), 1)

split_list(lst, num_chunks) ==
    SplitListLoop(lst, num_chunks, Len(lst) \div num_chunks, Len(lst) % num_chunks, 1)

RECURSIVE MapExtend(_)
MapExtend(chunks) ==
    IF chunks = <<>> THEN <<>>
    ELSE parse_commits_chunk(Head(chunks)) \o MapExtend(Tail(chunks))

parse_commit_data(text) == MapExtend(split_list(RawCommits(text), CpuCount))

(***************************************************************************)
(* Log parsing as a state machine: git prints a history, the collector     *)
(* parses it.                                                              *)
(***************************************************************************)
\* lines a commit message may hold
MessageLines ==
    { <<"fix">>, COMMIT_START, COMMIT_END,
      <<"A", TAB, "x.py">>, <<"D", TAB, "y.py">>,
      <<"A", "lso", TAB, "see">>, <<"D", "one", TAB, "now">>,
      <<BLANK, "note", TAB>> }

Subjects == { <<"fix">> }

Bodies == { <<>> } \cup { <<l>> : l \in MessageLines }
            \cup { << <<"M", TAB, "x.py">>, <<"A", "M", TAB, "y.py">> >> }

ChangeLists == { <<>>, << <<"A", TAB, "x.py">> >>,
                 << <<"M", TAB, "x.py">>, <<"R", "100", TAB, "y.py", TAB, "z.py">> >> }

HashOf(i) == <<"h", ToString(i)>>

CommitUniverse ==
    [hash : {HashOf(0)}, when : {0}, subject : Subjects, body : Bodies,
     changes : ChangeLists]

SeqsUpTo(S, n) == UNION { [1..k -> S] : k \in 0..n }

\* histories of up to MaxHistory commits, the i-th one with the hash h<i>
Histories ==
    { [i \in 1..Len(h) |-> [h[i] EXCEPT !.hash = HashOf(i)]] :
        h \in SeqsUpTo(CommitUniverse, MaxHistory) }

MaxCommitsOpts == {None, <<1>>}

\* no parse_commit_data call is running
NoWorkers ==
    [cpu |-> 0, chunks |-> <<>>, submitted |-> <<>>, mapped |-> <<>>,
     order |-> <<>>, taken |-> 0, pools |-> 0]

ParseInit ==
    /\ history \in Histories
    /\ data = <<>>
    /\ commits = <<>>
    /\ parse_pc = "fetch"
    /\ workers = NoWorkers

\* fetch_commits_batch through run_git_command, git exiting with 0
Fetch ==
    /\ parse_pc = "fetch"
    /\ \E mc \in MaxCommitsOpts :
          data' = fetch_commits_batch(history, mc, None, 0)
    /\ parse_pc' = "parse"
    /\ UNCHANGED <<history, commits, workers>>
    /\ ParseFrame

Parse ==
    /\ parse_pc = "parse"
    /\ commits' = parse_commit_data(data)
    /\ parse_pc' = "done"
    /\ UNCHANGED <<history, data, workers>>
    /\ ParseFrame

ParseNext == Fetch \/ Parse

(***************************************************************************)
(* parse_commit_data step by step: the slices go to the tasks of two       *)
(* process pools, the tasks run in any interleaving, and the caller takes  *)
(* the results of the second pool in the order of the slices.              *)
(***************************************************************************)
\* commits with a plain message, with a token in the message, with changes
FanCommits ==
    { c \in CommitUniverse :
        \/ c.body = <<>> /\ c.changes = << <<"A", TAB, "x.py">> >>
        \/ c.body = <<COMMIT_START>> /\ c.changes = <<>> }

FanHistories ==
    { [i \in 1..Len(h) |-> [h[i] EXCEPT !.hash = HashOf(i)]] :
        h \in SeqsUpTo(FanCommits, MaxHistory) }

FanInit ==
    /\ history \in FanHistories
    /\ data = <<>>
    /\ commits = <<>>
    /\ parse_pc = "fetch"
    /\ workers = NoWorkers

\* one task per slice, not started yet
Pending(chunks) == [i \in 1..Len(chunks) |-> "pending"]

\* the slice whose result the caller takes next: Executor.map yields the
\* results in the order of its arguments
NextResultAsCompleted(w) == w.order[w.taken + 1]
NextResult(w) == w.taken + 1

\* os.cpu_count() is cpu_count; the with-statement makes the first pool and
\* submits every slice to it, ProcessPoolExecutor().map makes a second pool
\* and submits every slice to that one
Submit ==
    /\ parse_pc = "parse"
    /\ \E cpu_count \in 1..CpuCount :
          LET chunks == split_list(RawCommits(data), cpu_count)
          IN  workers' = [cpu       |-> cpu_count,
                          chunks    |-> chunks,
                          submitted |-> Pending(chunks),
                          mapped    |-> Pending(chunks),
                          order     |-> <<>>,
                          taken     |-> 0,
                          pools     |-> 2]
    /\ commits' = <<>>
    /\ parse_pc' = "map"
    /\ UNCHANGED <<history, data>>
    /\ ParseFrame

\* a process of the first pool takes a task
StartSubmitted ==
    /\ parse_pc = "map"
    /\ \E i \in DOMAIN workers.submitted :
          /\ workers.submitted[i] = "pending"
          /\ workers' = [workers EXCEPT !.submitted[i] = "running"]
    /\ UNCHANGED <<history, data, commits, parse_pc>>
    /\ ParseFrame

\* and ends it; nobody reads the result of its future
FinishSubmitted ==
    /\ parse_pc = "map"
    /\ \E i \in DOMAIN workers.submitted :
          /\ workers.submitted[i] = "running"
          /\ workers' = [workers EXCEPT !.submitted[i] = "done"]
    /\ UNCHANGED <<history, data, commits, parse_pc>>
    /\ ParseFrame

\* a process of the second pool takes a task
StartMapped ==
    /\ parse_pc = "map"
    /\ \E i \in DOMAIN workers.mapped :
          /\ workers.mapped[i] = "pending"
          /\ workers' = [workers EXCEPT !.mapped[i] = "running"]
    /\ UNCHANGED <<history, data, commits, parse_pc>>
    /\ ParseFrame

\* and ends it; order is the order in which the tasks of this pool ended
FinishMapped ==
    /\ parse_pc = "map"
    /\ \E i \in DOMAIN workers.mapped :
          /\ workers.mapped[i] = "running"
          /\ workers' = [workers EXCEPT !.mapped[i] = "done",
                                        !.order = Append(@, i)]
    /\ UNCHANGED <<history, data, commits, parse_pc>>
    /\ ParseFrame

\* one round of the for loop: a result that was not taken yet is there and
\* it is the next one, commits.extend
TakeResult ==
    /\ parse_pc = "map"
    /\ workers.taken < Len(workers.order)
    /\ workers.mapped[NextResult(workers)] = "done"
    /\ commits' = commits
                    \o parse_commits_chunk(workers.chunks[NextResult(workers)])
    /\ workers' = [workers EXCEPT !.taken = @ + 1]
    /\ UNCHANGED <<history, data, parse_pc>>
    /\ ParseFrame

\* the loop is over, the with-statement waits for the tasks of the first
\* pool, then parse_commit_data returns
Return ==
    /\ parse_pc = "map"
    /\ workers.taken = Len(workers.chunks)
    /\ \A i \in DOMAIN workers.submitted : workers.submitted[i] = "done"
    /\ parse_pc' = "done"
    /\ UNCHANGED <<history, data, commits, workers>>
    /\ ParseFrame

FanNext ==
    \/ Fetch
    \/ Submit
    \/ StartSubmitted
    \/ FinishSubmitted
    \/ StartMapped
    \/ FinishMapped
    \/ TakeResult
    \/ Return

(***************************************************************************)
(* get_current_changes: the diff-stat reader.                              *)
(***************************************************************************)
Digits == <<"0", "1", "2", "3", "4", "5", "6", "7", "8", "9">>

DigitSet == { Digits[i] : i \in 1..10 }

DigitVal(c) == (CHOOSE i \in 1..10 : Digits[i] = c) - 1

RECURSIVE DecimalValue(_, _)
DecimalValue(ds, acc) ==
    IF ds = <<>> THEN acc ELSE DecimalValue(Tail(ds), acc * 10 + DigitVal(Head(ds)))

Unsigned(tok) == IF tok # <<>> /\ tok[1] \in {"+", "-"} THEN Tail(tok) ELSE tok

\* int(tok) succeeds: an optional sign and then digits only
IsInt(tok) ==
    /\ Unsigned(tok) # <<>>
    /\ \A i \in 1..Len(Unsigned(tok)) : Unsigned(tok)[i] \in DigitSet

\* int(tok)
IntOf(tok) ==
    IF tok[1] = "-" THEN 0 - DecimalValue(Unsigned(tok), 0)
    ELSE DecimalValue(Unsigned(tok), 0)

\* "file changed" in line or "files changed" in line
IsSummary(line) ==
    \E i \in 1..(Len(line) - 2) :
        line[i] \in {"file", "files"} /\ line[i + 1] = BLANK /\ line[i + 2] = "changed"

ErrorEntry == [additions |-> 0, deletions |-> 0, total |-> 0, error |-> TRUE]

Put(map, key, value) ==
    [k \in (DOMAIN map) \cup {key} |-> IF k = key THEN value ELSE map[k]]

\* a variant whose even split drops the odd unit
StatEntryFloor(stats_parts) ==
    LET total_changes == IF stats_parts # <<>> THEN IntOf(stats_parts[1]) ELSE 0
        symbols       == IF Len(stats_parts) > 1 THEN stats_parts[2] ELSE <<>>
        plus          == Count(symbols, "+")
        minus         == Count(symbols, "-")
        split         == plus = 0 /\ minus = 0
    IN  [additions |-> IF split THEN total_changes \div 2 ELSE plus,
         deletions |-> IF split THEN total_changes \div 2 ELSE minus,
         total     |-> total_changes,
         error     |-> FALSE]

\* the try block for a line with exactly one "|" whose count is an integer
StatEntry(stats_parts) ==
    LET total_changes == IF stats_parts # <<>> THEN IntOf(stats_parts[1]) ELSE 0
        symbols       == IF Len(stats_parts) > 1 THEN stats_parts[2] ELSE <<>>
        plus          == Count(symbols, "+")
        minus         == Count(symbols, "-")
        split         == plus = 0 /\ minus = 0
    IN  [additions |-> IF split
                       THEN (total_changes \div 2)
                              + (IF total_changes % 2 = 1 THEN 1 ELSE 0)
                       ELSE plus,
         deletions |-> IF split THEN total_changes \div 2 ELSE minus,
         total     |-> total_changes,
         error     |-> FALSE]

\* a variant whose except handler records nothing
ProcessDiffLineSilent(map, line) ==
    IF Strip(line) = <<>> THEN map
    ELSE IF IsSummary(line) THEN map
    ELSE LET parts == SplitOn(line, "|") IN
         IF Len(parts) # 2 THEN map
         ELSE LET filename    == Strip(parts[1])
                  stats_parts == SplitWs(Strip(parts[2]))
              IN  IF stats_parts # <<>> /\ ~IsInt(stats_parts[1])
                  THEN map
                  ELSE Put(map, filename, StatEntry(stats_parts))

\* one iteration of the loop over the lines of the output
ProcessDiffLine(map, line) ==
    IF Strip(line) = <<>> THEN map
    ELSE IF IsSummary(line) THEN map
    ELSE LET parts == SplitOn(line, "|") IN
         IF Len(parts) # 2 THEN map
         ELSE LET filename    == Strip(parts[1])
                  stats_parts == SplitWs(Strip(parts[2]))
              IN  IF stats_parts # <<>> /\ ~IsInt(stats_parts[1])
                  THEN Put(map, filename, ErrorEntry)    \* the except handler
                  ELSE Put(map, filename, StatEntry(stats_parts))

RECURSIVE DiffLoop(_, _)
DiffLoop(map, lines) ==
    IF lines = <<>> THEN map
    ELSE DiffLoop(ProcessDiffLine(map, Head(lines)), Tail(lines))

EmptyMap == <<>>

get_current_changes(git_ok, lines) ==
    IF ~git_ok THEN EmptyMap ELSE DiffLoop(EmptyMap, lines)

(***************************************************************************)
(* What "git diff --stat" prints.                                          *)
(***************************************************************************)
RECURSIVE ToDigits(_)
ToDigits(n) ==
    IF n < 10 THEN <<Digits[n + 1]>> ELSE ToDigits(n \div 10) \o <<Digits[(n % 10) + 1]>>

RECURSIVE Repeat(_, _)
Repeat(c, n) == IF n = 0 THEN <<>> ELSE <<c>> \o Repeat(c, n - 1)

\* " <name> | <n> <plus times '+'><minus times '-'>"
StatLine(name, n, plus, minus) ==
    <<BLANK, name, BLANK, "|", BLANK>> \o ToDigits(n)
      \o (IF plus + minus > 0
          THEN <<BLANK>> \o Repeat("+", plus) \o Repeat("-", minus)
          ELSE <<>>)

FileNames  == {"foo.go", "bar.go"}
StatTotals == {7, 8, 10}
StatGraphs == { <<0, 0>>, <<0, 1>>, <<5, 5>> }

StatLines == { StatLine(f, n, g[1], g[2]) : f \in FileNames, n \in StatTotals,
                                            g \in StatGraphs }

BinaryLine(name) ==
    <<BLANK, name, BLANK, "|", BLANK, "Bin", BLANK, "5", BLANK, "-", ">",
      BLANK, "5", BLANK, "bytes">>

SummaryLine ==
    <<BLANK, "2", BLANK, "files", BLANK, "changed", ",", BLANK, "1", BLANK,
      "insertion(", "+", ")">>

OtherLines ==
    { <<>>, <<BLANK>>, SummaryLine,
      BinaryLine("foo.go"), BinaryLine("b.bin"),
      <<"warning:", BLANK, "LF">>,
      <<BLANK, "a", "|", "b", BLANK, "|", BLANK, "3", BLANK, "+">>,
      <<BLANK, "foo.go", BLANK, "|">> }

DiffOutputs == SeqsUpTo(StatLines \cup OtherLines, MaxDiffLines)

DiffInit ==
    /\ diff_output \in DiffOutputs
    /\ changes = EmptyMap
    /\ diff_pc = "read"

\* get_current_changes: run "git diff --stat" and read its output
GetCurrentChanges ==
    /\ diff_pc = "read"
    /\ \E git_ok \in BOOLEAN :
          /\ changes' = get_current_changes(git_ok, diff_output)
          /\ diff_pc' = IF git_ok THEN "done" ELSE "failed"
    /\ UNCHANGED diff_output
    /\ DiffFrame

DiffNext == GetCurrentChanges

(***************************************************************************)
(* The cache file: json.dump and json.load.                                *)
(*                                                                         *)
(* The text of a cache file is a sequence of JSON tokens.  A token is a    *)
(* sequence of atoms: <<"[">>, <<"]">>, <<"{">>, <<"}">>, <<"null">>, a    *)
(* string <<"s">> \o atoms, or a number <<"n">> \o decimal digits.  Commas *)
(* and colons are left out.                                                *)
(***************************************************************************)
StrTok(atoms) == <<"s">> \o atoms
NumTok(n)     == <<"n">> \o ToDigits(n)
KeyTok(name)  == <<"s", name>>

\* a variant that writes the two counts under each other's key
DumpFileChangeSwapped(f) ==
    << <<"{">>,
       KeyTok("filename"),  StrTok(f.filename),
       KeyTok("status"),    StrTok(f.status),
       KeyTok("additions"), NumTok(f.deletions),
       KeyTok("deletions"), NumTok(f.additions),
       <<"}">> >>

DumpFileChange(f) ==
    << <<"{">>,
       KeyTok("filename"),  StrTok(f.filename),
       KeyTok("status"),    StrTok(f.status),
       KeyTok("additions"), NumTok(f.additions),
       KeyTok("deletions"), NumTok(f.deletions),
       <<"}">> >>

RECURSIVE DumpFiles(_)
DumpFiles(fs) ==
    IF fs = <<>> THEN <<>> ELSE DumpFileChange(Head(fs)) \o DumpFiles(Tail(fs))

DumpCommit(c) ==
    << <<"{">>,
       KeyTok("hash"),    StrTok(c.hash),
       KeyTok("author"),  StrTok(c.author),
       KeyTok("date"),    StrTok(c.date),
       KeyTok("message"), StrTok(c.message),
       KeyTok("files"),   <<"[">> >> \o DumpFiles(c.files) \o << <<"]">>, <<"}">> >>

RECURSIVE DumpCommits(_)
DumpCommits(cs) ==
    IF cs = <<>> THEN <<>> ELSE DumpCommit(Head(cs)) \o DumpCommits(Tail(cs))

\* json.dump(commits, f)
json_dump(cs) == << <<"[">> >> \o DumpCommits(cs) \o << <<"]">> >>

\* the result of parsing a value: kind is "error" when the text is not JSON
JsonError == [kind |-> "error", val |-> <<>>, rest |-> <<>>]

\* a dict from its members <<key, value>>, a later member overriding an earlier
DictOf(members) ==
    [k \in { members[i][1] : i \in 1..Len(members) } |->
        members[CHOOSE i \in 1..Len(members) :
                   /\ members[i][1] = k
                   /\ \A j \in (i + 1)..Len(members) : members[j][1] # k][2]]

RECURSIVE ParseValue(_)
RECURSIVE ParseItems(_, _)
RECURSIVE ParseMembers(_, _)

ParseValue(toks) ==
    IF toks = <<>> THEN JsonError
    ELSE LET t == Head(toks) IN
         IF t = <<"[">> THEN ParseItems(Tail(toks), <<>>)
         ELSE IF t = <<"{">> THEN ParseMembers(Tail(toks), <<>>)
         ELSE IF t = <<"null">> THEN [kind |-> "null", val |-> <<>>, rest |-> Tail(toks)]
         ELSE IF Len(t) >= 1 /\ t[1] = "s"
              THEN [kind |-> "str", val |-> Tail(t), rest |-> Tail(toks)]
         ELSE IF Len(t) >= 2 /\ t[1] = "n"
              THEN [kind |-> "int", val |-> DecimalValue(Tail(t), 0), rest |-> Tail(toks)]
         ELSE JsonError

ParseItems(toks, acc) ==
    IF toks = <<>> THEN JsonError
    ELSE IF Head(toks) = <<"]">> THEN [kind |-> "list", val |-> acc, rest |-> Tail(toks)]
    ELSE LET v == ParseValue(toks) IN
         IF v.kind = "error" THEN JsonError
         ELSE ParseItems(v.rest, Append(acc, v.val))

ParseMembers(toks, acc) ==
    IF toks = <<>> THEN JsonError
    ELSE IF Head(toks) = <<"}">>
         THEN [kind |-> "dict", val |-> DictOf(acc), rest |-> Tail(toks)]
    ELSE LET k == Head(toks) IN
         IF ~(Len(k) = 2 /\ k[1] = "s") THEN JsonError
         ELSE LET v == ParseValue(Tail(toks)) IN
              IF v.kind = "error" THEN JsonError
              ELSE ParseMembers(v.rest, Append(acc, <<k[2], v.val>>))

\* json.load(f): the whole text is one value
json_load(toks) ==
    LET v == ParseValue(toks) IN
    IF v.kind # "error" /\ v.rest = <<>> THEN v ELSE JsonError

(***************************************************************************)
(* The collector and its cache directory.                                  *)
(***************************************************************************)
Cwd == "/w/r"

\* os.path.abspath
AbsPath(path) == IF path = "." THEN Cwd ELSE path

DefaultConfig ==
    [repo_path |-> ".", max_commits |-> None, since_days |-> None, file_patterns |-> "none"]

\* the configurations of the model: the default one and those that differ
\* from it in one of repo_path, max_commits, since_days and file_patterns
Configs ==
    { DefaultConfig,
      [DefaultConfig EXCEPT !.repo_path = "/w/r"],
      [DefaultConfig EXCEPT !.repo_path = "/w/q"],
      [DefaultConfig EXCEPT !.max_commits = <<1>>],
      [DefaultConfig EXCEPT !.since_days = <<1>>],
      [DefaultConfig EXCEPT !.file_patterns = "*.py"] }

OptStr(opt) == IF opt = None THEN "all" ELSE ToString(opt[1])

\* hashlib.md5(key_str).hexdigest(): distinct key strings, distinct digests
Md5(key_str) == <<"md5">> \o key_str

get_cache_key(cfg) ==
    Md5(<<AbsPath(cfg.repo_path), "_", OptStr(cfg.max_commits), "_", OptStr(cfg.since_days)>>)

Keys == { get_cache_key(c) : c \in Configs }

\* A cache file.  accessible = FALSE: open() fails with an IOError (access
\* denied, or the path is a directory).  utf8 = FALSE: the bytes of the file
\* are not valid UTF-8.
NoFile ==
    [exists |-> FALSE, mtime |-> 0, accessible |-> FALSE, utf8 |-> FALSE, text |-> <<>>]

EmptyDir == [k \in Keys |-> NoFile]

\* a variant that removes only the file of the collector's own key
clear_cache_own_key(cfg, dir) == [dir EXCEPT ![get_cache_key(cfg)] = NoFile]

\* clear_cache: shutil.rmtree(cache_dir); os.makedirs(cache_dir)
clear_cache(cfg, dir) == [k \in Keys |-> NoFile]

\* load_from_cache: <<"hit", commits>>, <<"miss", _>> or <<"raise", _>>
load_from_cache(cfg, dir, clock) ==
    LET f == dir[get_cache_key(cfg)] IN
    IF ~f.exists THEN <<"miss", <<>>>>
    ELSE IF ~(clock - f.mtime < FreshWindow) THEN <<"miss", <<>>>>
    ELSE IF ~f.accessible THEN <<"miss", <<>>>>              \* IOError, caught
    ELSE IF ~f.utf8 THEN <<"raise", <<>>>>                   \* UnicodeDecodeError
    ELSE LET v == json_load(f.text) IN
         IF v.kind = "error" THEN <<"miss", <<>>>>           \* JSONDecodeError, caught
         ELSE IF v.kind \in {"null", "int"} THEN <<"raise", <<>>>>   \* len(): TypeError
         ELSE <<"hit", v.val>>

\* save_to_cache.  how = "ok": the file is written; "open_fails": open()
\* raises an IOError, which is caught, and nothing is written.
save_to_cache(cfg, dir, clock, cs, how) ==
    LET key == get_cache_key(cfg)
        f   == dir[key]
    IN  IF how = "open_fails" \/ (f.exists /\ ~f.accessible) THEN dir
        ELSE [dir EXCEPT ![key] =
                 [exists |-> TRUE, mtime |-> clock, accessible |-> TRUE, utf8 |-> TRUE,
                  text |-> json_dump(cs)]]

Saved(cfg, dir, how) ==
    how = "ok" /\ ~(dir[get_cache_key(cfg)].exists /\ ~dir[get_cache_key(cfg)].accessible)

(***************************************************************************)
(* The repository in the working directory.                                *)
(***************************************************************************)
\* the i-th commit made to the repository
RepoCommit(i) ==
    IF i = 1
    THEN [hash |-> HashOf(1), when |-> 0 - 100000, subject |-> <<"fix">>, body |-> <<>>,
          changes |-> << <<"A", TAB, "x.py">> >>]
    ELSE [hash |-> HashOf(i), when |-> 0, subject |-> <<"fix">>,
          body |-> << <<"A", "lso", TAB, "see">> >>,
          changes |-> << <<"M", TAB, "x.py">> >>]

\* the history of the repository in the working directory at a version,
\* newest commit first
RECURSIVE HistoryAt(_)
HistoryAt(version) ==
    IF version < 0 THEN <<>> ELSE <<RepoCommit(version + 1)>> \o HistoryAt(version - 1)

\* the history of the repository at a path; the one that is not in the
\* working directory has a single commit
HistoryOf(path, version) ==
    IF AbsPath(path) = Cwd THEN HistoryAt(version) ELSE <<RepoCommit(2)>>

\* a variant that answers a failing log command with an empty history, which
\* it caches
collect_history_lenient(cfg, dir, clock, hist, git_ok, how) ==
    LET cached == load_from_cache(cfg, dir, clock) IN
    IF cached[1] = "hit"
    THEN [outcome |-> "hit", result |-> cached[2], calls |-> 0, saved |-> FALSE, dir |-> dir]
    ELSE IF cached[1] = "raise"
    THEN [outcome |-> "cache_error", result |-> <<>>, calls |-> 0, saved |-> FALSE, dir |-> dir]
    ELSE LET cs == IF git_ok
                   THEN parse_commit_data(
                            fetch_commits_batch(hist, cfg.max_commits, cfg.since_days, clock))
                   ELSE <<>>
         IN  [outcome |-> IF git_ok THEN "miss" ELSE "git_error", result |-> cs, calls |-> 1,
              saved |-> Saved(cfg, dir, how),
              dir |-> save_to_cache(cfg, dir, clock, cs, how)]

\* collect_history.  git_ok: the log command exits with 0.  The result is the
\* outcome, the returned commits, the number of log invocations and the cache
\* directory afterwards.
collect_history(cfg, dir, clock, hist, git_ok, how) ==
    LET cached == load_from_cache(cfg, dir, clock) IN
    IF cached[1] = "hit"
    THEN [outcome |-> "hit", result |-> cached[2], calls |-> 0, saved |-> FALSE, dir |-> dir]
    ELSE IF cached[1] = "raise"
    THEN [outcome |-> "cache_error", result |-> <<>>, calls |-> 0, saved |-> FALSE, dir |-> dir]
    ELSE IF ~git_ok
    THEN [outcome |-> "git_error", result |-> <<>>, calls |-> 1, saved |-> FALSE, dir |-> dir]
    ELSE LET cs == parse_commit_data(
                       fetch_commits_batch(hist, cfg.max_commits, cfg.since_days, clock))
         IN  [outcome |-> "miss", result |-> cs, calls |-> 1,
              saved |-> Saved(cfg, dir, how),
              dir |-> save_to_cache(cfg, dir, clock, cs, how)]

\* The record of a collect_history call: its number, configuration, outcome,
\* returned commits and log invocations, whether it wrote the cache file,
\* the cache directory before it and what happened since the call before it.
NoCall ==
    [seq |-> 0, cfg |-> DefaultConfig, outcome |-> "none", result |-> <<>>,
     calls |-> 0, saved |-> FALSE, before |-> EmptyDir, after |-> {}]

CacheInit ==
    /\ now = 0
    /\ cache_dir = EmptyDir
    /\ repo = 0
    /\ last = NoCall
    /\ since_last = {}

SaveOutcomes == {"ok", "open_fails"}

\* the time between two calls
Delays == {1, FreshWindow - 1, FreshWindow}

\* collect_history of a collector with one of the configurations cfgs, after
\* one of the delays, with git and the file system behaving as gits and hows
\* (which matter only when the cache is missed)
CollectHistory(cfgs, delays, gits, hows) ==
    /\ last.seq < MaxCalls
    /\ \E cfg \in cfgs, d \in delays :
          LET missed == load_from_cache(cfg, cache_dir, now + d)[1] = "miss" IN
          \E git_ok \in IF missed THEN gits ELSE {TRUE} :
          \E how \in IF missed /\ git_ok THEN hows ELSE {"ok"} :
              LET r == collect_history(cfg, cache_dir, now + d,
                                       HistoryOf(cfg.repo_path, repo), git_ok, how)
              IN  /\ now' = now + d
                  /\ cache_dir' = r.dir
                  /\ last' = [seq |-> last.seq + 1, cfg |-> cfg, outcome |-> r.outcome,
                              result |-> r.result, calls |-> r.calls, saved |-> r.saved,
                              before |-> cache_dir, after |-> since_last]
    /\ since_last' = {}
    /\ UNCHANGED repo
    /\ CacheFrame

ClearCache(cfgs) ==
    /\ \E cfg \in cfgs : cache_dir' = clear_cache(cfg, cache_dir)
    /\ since_last' = since_last \cup {"clear"}
    /\ UNCHANGED <<now, repo, last>>
    /\ CacheFrame

\* a commit is added to the repository
RepoChange ==
    /\ last.seq < MaxCalls
    /\ repo = 0
    /\ repo' = 1
    /\ since_last' = since_last \cup {"repo"}
    /\ UNCHANGED <<now, cache_dir, last>>
    /\ CacheFrame

\* a cache file is damaged from outside: cut short, overwritten with bytes
\* that are not UTF-8, overwritten with the JSON text null, or made
\* inaccessible
Damages == {"cut", "bytes", "null", "deny"}

Damaged(f, how, clock) ==
    IF how = "cut" THEN [f EXCEPT !.text = SubSeq(f.text, 1, Len(f.text) - 1), !.mtime = clock]
    ELSE IF how = "bytes" THEN [f EXCEPT !.utf8 = FALSE, !.mtime = clock]
    ELSE IF how = "null" THEN [f EXCEPT !.text = << <<"null">> >>, !.mtime = clock]
    ELSE [f EXCEPT !.accessible = FALSE]

Tamper ==
    /\ last.seq < MaxCalls
    /\ "tamper" \notin since_last
    /\ \E k \in Keys, how \in Damages :
          /\ cache_dir[k].exists /\ cache_dir[k].accessible /\ cache_dir[k].utf8
          /\ cache_dir[k].text # <<>>
          /\ cache_dir' = [cache_dir EXCEPT ![k] = Damaged(cache_dir[k], how, now)]
    /\ since_last' = since_last \cup {"tamper"}
    /\ UNCHANGED <<now, repo, last>>
    /\ CacheFrame

\* one collector, with git, the clock and the file system at their worst
CacheConfigs == { DefaultConfig }

CacheNext ==
    \/ CollectHistory(CacheConfigs, Delays, BOOLEAN, SaveOutcomes)
    \/ ClearCache(CacheConfigs)
    \/ RepoChange
    \/ Tamper

\* collectors of every configuration, git and the file system behaving well
KeysNext ==
    \/ CollectHistory(Configs, {1, FreshWindow}, {TRUE}, {"ok"})
    \/ ClearCache(Configs)
    \/ RepoChange

(***************************************************************************)
(* PluginManager.  A dict is a sequence of <<key, value>> pairs in         *)
(* insertion order; a plugin instance is identified with its plugin id.    *)
(***************************************************************************)
\* the modules of the metrics package, in the order pkgutil lists them
Registry == <<"change_coupling", "code_churn", "hotspot_analysis">>

Range(seq) == { seq[i] : i \in 1..Len(seq) }

PluginIds == Range(Registry) \cup {"unknown"}

DictKeys(d) == [i \in 1..Len(d) |-> d[i][1]]

DictHas(d, k) == \E i \in 1..Len(d) : d[i][1] = k

DictGet(d, k) == d[CHOOSE i \in 1..Len(d) : d[i][1] = k][2]

\* d[k] = v
DictSet(d, k, v) ==
    IF DictHas(d, k)
    THEN [i \in 1..Len(d) |-> IF d[i][1] = k THEN <<k, v>> ELSE d[i]]
    ELSE Append(d, <<k, v>>)

\* discover_plugins: the modules found, none when the package does not import
discover_plugins(importable) == IF importable THEN Registry ELSE <<>>

RECURSIVE ActivateLoop(_, _, _, _, _)
ActivateLoop(known, plugin_ids, i, failing, activated) ==
    IF i > Len(plugin_ids) THEN activated
    ELSE LET plugin_id == plugin_ids[i] IN
         ActivateLoop(known, plugin_ids, i + 1, failing,
             IF plugin_id \in Range(known) /\ plugin_id \notin failing
             THEN DictSet(activated, plugin_id, plugin_id)
             ELSE activated)

\* a variant that adds to the plugins that are active instead of replacing them
activate_plugins_adding(known, importable, plugin_ids, failing) ==
    LET found == IF known = <<>> THEN discover_plugins(importable) ELSE known
        ids   == IF plugin_ids = None THEN found ELSE plugin_ids[1]
        old   == [i \in 1..Len(active_plugins) |-> <<active_plugins[i], active_plugins[i]>>]
    IN  [plugins |-> found,
         active  |-> DictKeys(ActivateLoop(found, ids, 1, failing, old))]

\* activate_plugins: the new self.plugins and self.active_plugins;
\* failing: the plugins whose constructor raises
activate_plugins(known, importable, plugin_ids, failing) ==
    LET found == IF known = <<>> THEN discover_plugins(importable) ELSE known
        ids   == IF plugin_ids = None THEN found ELSE plugin_ids[1]
    IN  [plugins |-> found,
         active  |-> DictKeys(ActivateLoop(found, ids, 1, failing, <<>>))]

RECURSIVE CalculateLoop(_, _, _, _)
CalculateLoop(active, i, does, acc) ==
    IF i > Len(active) THEN acc
    ELSE LET plugin_id == active[i]
             out       == does[plugin_id]
         IN  CalculateLoop(active, i + 1, does,
                 [results |-> DictSet(acc.results, plugin_id,
                                 IF out = "raise" THEN None ELSE <<out>>),
                  invoked |-> Append(acc.invoked, plugin_id)])

RECURSIVE AbortingLoop(_, _, _, _)
AbortingLoop(active, i, does, acc) ==
    IF i > Len(active) THEN acc
    ELSE LET plugin_id == active[i]
             out       == does[plugin_id]
             next      == [results |-> DictSet(acc.results, plugin_id,
                                          IF out = "raise" THEN None ELSE <<out>>),
                           invoked |-> Append(acc.invoked, plugin_id)]
         IN  IF out = "raise" THEN next ELSE AbortingLoop(active, i + 1, does, next)

\* a variant that gives up at the first plugin that raises
calculate_metrics_aborting(active, does) ==
    AbortingLoop(active, 1, does, [results |-> <<>>, invoked |-> <<>>])

\* calculate_metrics: the mapping returned and the calculate calls made;
\* does[id] is what calculate of the plugin does: raise, or return a value
calculate_metrics(active, does) ==
    CalculateLoop(active, 1, does, [results |-> <<>>, invoked |-> <<>>])

\* a variant of the loop that lets the exception of a plugin out: nothing is
\* returned
RECURSIVE ImpactLoopRaising(_, _, _, _, _)
ImpactLoopRaising(active, i, metric_res, does, acc) ==
    IF i > Len(active) THEN acc
    ELSE LET plugin_id == active[i] IN
         IF DictHas(metric_res, plugin_id) /\ DictGet(metric_res, plugin_id) # None
         THEN IF does[plugin_id] = "raise"
              THEN [results |-> <<>>, invoked |-> Append(acc.invoked, plugin_id)]
              ELSE ImpactLoopRaising(active, i + 1, metric_res, does,
                       [results |-> DictSet(acc.results, plugin_id, does[plugin_id]),
                        invoked |-> Append(acc.invoked, plugin_id)])
         ELSE ImpactLoopRaising(active, i + 1, metric_res, does, acc)

analyze_impact_raising(active, metric_res, does) ==
    ImpactLoopRaising(active, 1, metric_res, does, [results |-> <<>>, invoked |-> <<>>])

RECURSIVE ImpactLoop(_, _, _, _, _)
ImpactLoop(active, i, metric_res, does, acc) ==
    IF i > Len(active) THEN acc
    ELSE LET plugin_id == active[i] IN
         IF DictHas(metric_res, plugin_id) /\ DictGet(metric_res, plugin_id) # None
         THEN ImpactLoop(active, i + 1, metric_res, does,
                  [results |-> IF does[plugin_id] = "raise" THEN acc.results
                               ELSE DictSet(acc.results, plugin_id, does[plugin_id]),
                   invoked |-> Append(acc.invoked, plugin_id)])
         ELSE ImpactLoop(active, i + 1, metric_res, does, acc)

\* analyze_impact: the mapping returned and the analyze_impact calls made;
\* does[id] is what analyze_impact of the plugin does: raise, or return a value
analyze_impact(active, metric_res, does) ==
    ImpactLoop(active, 1, metric_res, does, [results |-> <<>>, invoked |-> <<>>])

\* the active plugins that have a result other than None in the mapping
Analyzable(active, metric_res) ==
    { id \in Range(active) : DictHas(metric_res, id) /\ DictGet(metric_res, id) # None }

ImpactOutcomes == {"i1", "raise"}

NoImpact == [given |-> <<>>, does |-> [id \in Range(Registry) |-> "i1"],
             invoked |-> <<>>, results |-> <<>>]

NoActivation == [plugin_ids |-> None, failing |-> {}]

Values == {"r1", "r2"}

Outcomes == Values \cup {"raise"}

NoBehaviour == [id \in Range(Registry) |-> "r1"]

IdLists == { <<l>> : l \in SeqsUpTo(PluginIds, MaxIdList) }

\* the plugins whose constructor raises in one activate_plugins call
Failing == { {} } \cup { {id} : id \in Range(Registry) }

EngineInit ==
    /\ plugins = <<>>
    /\ active_plugins = <<>>
    /\ behaviour = NoBehaviour
    /\ invoked = <<>>
    /\ metric_results = <<>>
    /\ engine_pc = "new"
    /\ activation = NoActivation
    /\ impact = NoImpact

ActivatePlugins ==
    /\ \E importable \in (IF plugins = <<>> THEN BOOLEAN ELSE {TRUE}),
          plugin_ids \in {None} \cup IdLists, failing \in Failing :
          LET r == activate_plugins(plugins, importable, plugin_ids, failing) IN
          /\ plugins' = r.plugins
          /\ active_plugins' = r.active
          /\ activation' = [plugin_ids |-> plugin_ids, failing |-> failing]
    /\ engine_pc' = "activated"
    \* a new run: the records of the calls of the run before are dropped
    /\ behaviour' = NoBehaviour
    /\ invoked' = <<>>
    /\ metric_results' = <<>>
    /\ impact' = NoImpact
    /\ EngineFrame

CalculateMetrics ==
    /\ engine_pc = "activated"
    /\ \E does \in [Range(Registry) -> Outcomes] :
          /\ \A id \in Range(Registry) \ Range(active_plugins) : does[id] = "r1"
          /\ behaviour' = does
          /\ LET r == calculate_metrics(active_plugins, does) IN
             /\ metric_results' = r.results
             /\ invoked' = r.invoked
    /\ engine_pc' = "calculated"
    /\ activation' = NoActivation
    /\ UNCHANGED <<plugins, active_plugins, impact>>
    /\ EngineFrame

\* the mappings a caller may hand to analyze_impact: the one
\* calculate_metrics returned, or that one without one of its keys
Without(d, k) == SelectSeq(d, LAMBDA kv : kv[1] # k)

Handed(d) == {d} \cup { Without(d, d[i][1]) : i \in 1..Len(d) }

AnalyzeImpact ==
    /\ engine_pc = "calculated"
    /\ \E given \in Handed(metric_results), does \in [Range(Registry) -> ImpactOutcomes] :
          /\ \A id \in Range(Registry) \ Analyzable(active_plugins, given) :
                does[id] = "i1"
          /\ LET r == analyze_impact(active_plugins, given, does) IN
             impact' = [given |-> given, does |-> does, invoked |-> r.invoked,
                        results |-> r.results]
    /\ engine_pc' = "analyzed"
    /\ UNCHANGED <<plugins, active_plugins, behaviour, invoked, metric_results,
                   activation>>
    /\ EngineFrame

EngineNext == ActivatePlugins \/ CalculateMetrics \/ AnalyzeImpact

(***************************************************************************)
(* Python floats.  A float is an IEEE-754 double: the results of the       *)
(* divisions, products and sums below are rounded to 53 significant bits,  *)
(* to nearest, ties to even.  A natural number of any size is a sequence   *)
(* of limbs, least significant first and without leading zeros; a float    *)
(* x >= 0 is [mant, exp] with x = mant * 2^exp and 2^52 <= mant < 2^53,    *)
(* or FZero.  The values met here are far from overflow and underflow.     *)
(***************************************************************************)
MantBits == 53

Base == 2^14

RECURSIVE Trim(_)
Trim(a) == IF a # <<>> /\ a[Len(a)] = 0 THEN Trim(SubSeq(a, 1, Len(a) - 1)) ELSE a

RECURSIVE ToBig(_)
ToBig(n) == IF n = 0 THEN <<>> ELSE <<n % Base>> \o ToBig(n \div Base)

Limb(a, i) == IF i <= Len(a) THEN a[i] ELSE 0

RECURSIVE AddLoop(_, _, _, _)
AddLoop(a, b, i, carry) ==
    IF i > Len(a) /\ i > Len(b) THEN ToBig(carry)
    ELSE LET s == Limb(a, i) + Limb(b, i) + carry
         IN  <<s % Base>> \o AddLoop(a, b, i + 1, s \div Base)

BigAdd(a, b) == AddLoop(a, b, 1, 0)

\* a - b for a >= b
RECURSIVE SubLoop(_, _, _, _)
SubLoop(a, b, i, borrow) ==
    IF i > Len(a) THEN <<>>
    ELSE LET d == a[i] - Limb(b, i) - borrow
         IN  <<(d + Base) % Base>> \o SubLoop(a, b, i + 1, IF d < 0 THEN 1 ELSE 0)

BigSub(a, b) == Trim(SubLoop(a, b, 1, 0))

\* a * k for 0 <= k < Base
RECURSIVE MulSmallLoop(_, _, _, _)
MulSmallLoop(a, k, i, carry) ==
    IF i > Len(a) THEN ToBig(carry)
    ELSE LET p == a[i] * k + carry
         IN  <<p % Base>> \o MulSmallLoop(a, k, i + 1, p \div Base)

BigMulSmall(a, k) == Trim(MulSmallLoop(a, k, 1, 0))

RECURSIVE BigMul(_, _)
BigMul(a, b) ==
    IF b = <<>> THEN <<>>
    ELSE BigAdd(BigMulSmall(a, b[1]), Trim(<<0>> \o BigMul(a, Tail(b))))

RECURSIVE LessFrom(_, _, _)
LessFrom(a, b, i) ==
    IF i = 0 THEN FALSE
    ELSE IF a[i] # b[i] THEN a[i] < b[i]
    ELSE LessFrom(a, b, i - 1)

BigLess(a, b) == IF Len(a) # Len(b) THEN Len(a) < Len(b) ELSE LessFrom(a, b, Len(a))

RECURSIVE Bits(_)
Bits(n) == IF n = 0 THEN 0 ELSE 1 + Bits(n \div 2)

LimbBits == Bits(Base) - 1

BitLen(a) == IF a = <<>> THEN 0 ELSE LimbBits * (Len(a) - 1) + Bits(a[Len(a)])

\* a * 2^n
ShiftLeft(a, n) ==
    IF a = <<>> THEN <<>>
    ELSE [i \in 1..(n \div LimbBits) |-> 0] \o BigMulSmall(a, 2^(n % LimbBits))

\* a \div k for 0 < k < Base, from the most significant limb down
RECURSIVE DivSmallLoop(_, _, _, _)
DivSmallLoop(a, k, i, rem) ==
    IF i = 0 THEN <<>>
    ELSE LET cur == rem * Base + a[i]
         IN  DivSmallLoop(a, k, i - 1, cur % k) \o <<cur \div k>>

\* a \div 2^n
ShiftRight(a, n) ==
    LET kept == SubSeq(a, (n \div LimbBits) + 1, Len(a))
    IN  Trim(DivSmallLoop(kept, 2^(n % LimbBits), Len(kept), 0))

FZero == [mant |-> <<>>, exp |-> 0]

\* the double nearest to n * 2^e, ties to even: n is cut to its leading 53
\* bits q, and q is raised by one when the part cut off is more than half a
\* unit, or is half a unit and q is odd
RoundUp(r, e) ==
    IF BitLen(r) > MantBits
    THEN [mant |-> ShiftRight(r, 1), exp |-> e + 1]
    ELSE [mant |-> r, exp |-> e]

RoundRem(q, rem, half, e) ==
    RoundUp(IF BigLess(half, rem) \/ (rem = half /\ q[1] % 2 = 1)
            THEN BigAdd(q, <<1>>) ELSE q, e)

RoundQuot(n, q, s, e) ==
    RoundRem(q, BigSub(n, ShiftLeft(q, s)), ShiftLeft(<<1>>, s - 1), e + s)

RoundBits(n, bits, e) ==
    IF bits <= MantBits
    THEN [mant |-> ShiftLeft(n, MantBits - bits), exp |-> e - (MantBits - bits)]
    ELSE RoundQuot(n, ShiftRight(n, bits - MantBits), bits - MantBits, e)

RoundToDouble(n, e) == IF n = <<>> THEN FZero ELSE RoundBits(n, BitLen(n), e)

\* the double (hi * 2^27 + lo) * 2^e, for a significand given in two halves
Dbl(hi, lo, e) == [mant |-> BigAdd(ShiftLeft(ToBig(hi), 27), ToBig(lo)), exp |-> e]

\* float(n) of an int
FromInt(n) == RoundToDouble(ToBig(n), 0)

FMul(a, b) ==
    IF a = FZero \/ b = FZero THEN FZero
    ELSE RoundToDouble(BigMul(a.mant, b.mant), a.exp + b.exp)

FAdd(a, b) ==
    IF a = FZero THEN b
    ELSE IF b = FZero THEN a
    ELSE LET e == IF a.exp < b.exp THEN a.exp ELSE b.exp
         IN  RoundToDouble(BigAdd(ShiftLeft(a.mant, a.exp - e),
                                  ShiftLeft(b.mant, b.exp - e)), e)

\* the next k bits of the quotient of a division by b with remainder r < b
RECURSIVE DivBits(_, _, _, _)
DivBits(r, b, k, q) ==
    IF k = 0 THEN <<q, r>>
    ELSE LET r2 == ShiftLeft(r, 1)
         IN  IF BigLess(r2, b) THEN DivBits(r2, b, k - 1, 2 * q)
             ELSE DivBits(BigSub(r2, b), b, k - 1, 2 * q + 1)

\* the next n limbs of the quotient, least significant first, and after
\* them a last limb that tells whether a remainder is left
RECURSIVE DivLimbs(_, _, _)
DivLimbs(r, b, n) ==
    IF n = 0 THEN << IF r = <<>> THEN 0 ELSE 1 >>
    ELSE LET qr == DivBits(r, b, LimbBits, 0)
         IN  DivLimbs(qr[2], b, n - 1) \o <<qr[1]>>

\* a / b for b # 0: the quotient to 4 * LimbBits + 1 bits and a sticky bit
FDiv(a, b) ==
    IF a = FZero THEN FZero
    ELSE LET ge  == ~BigLess(a.mant, b.mant)
             ql  == DivLimbs(IF ge THEN BigSub(a.mant, b.mant) ELSE a.mant,
                             b.mant, 4) \o <<IF ge THEN 1 ELSE 0>>
             q   == Trim(Tail(ql))
             n   == BigAdd(ShiftLeft(q, 1), ToBig(ql[1]))
         IN  RoundToDouble(n, a.exp - b.exp - (4 * LimbBits + 1))

FLess(a, b) ==
    IF b = FZero THEN FALSE
    ELSE IF a = FZero THEN TRUE
    ELSE IF a.exp # b.exp THEN a.exp < b.exp
    ELSE BigLess(a.mant, b.mant)

\* |math.log2(c / t)| of the C library, which for these arguments is the
\* correctly rounded value
Log2Table ==
    {
      << 1,  2, Dbl(33554432,         0, -52)>>,
      << 1,  3, Dbl(53182516,  60800361, -52)>>,
      << 2,  3, Dbl(39256168, 121600722, -53)>>,
      << 1,  4, Dbl(33554432,         0, -51)>>,
      << 3,  4, Dbl(55705390,  25234014, -54)>>,
      << 1,  5, Dbl(38955489,  24748913, -51)>>,
      << 2,  5, Dbl(44356546,  49497826, -52)>>,
      << 3,  5, Dbl(49456923, 111612661, -53)>>,
      << 4,  5, Dbl(43208457,  63773578, -54)>>,
      << 1,  6, Dbl(43368474,  30400180, -51)>>,
      << 5,  6, Dbl(35303880,  45210134, -54)>>,
      << 1,  7, Dbl(47099599, 122946605, -51)>>,
      << 2,  7, Dbl(60644767, 111675482, -52)>>,
      << 3,  7, Dbl(41016683,  50875122, -52)>>,
      << 4,  7, Dbl(54180671,  89133236, -53)>>,
      << 5,  7, Dbl(65152885, 114492891, -54)>>,
      << 6,  7, Dbl(59698011,   4347789, -55)>>,
      << 1,  8, Dbl(50331648,         0, -51)>>,
      << 3,  8, Dbl(47480779,  73417368, -52)>>,
      << 5,  8, Dbl(45504635,  35222075, -53)>>,
      << 7,  8, Dbl(51712769,  46120242, -55)>>,
      << 1,  9, Dbl(53182516,  60800361, -51)>>,
      << 1, 10, Dbl(55732705,  24748913, -51)>>,
      << 1, 11, Dbl(58039631,  67525954, -51)>>,
      << 1, 12, Dbl(60145690,  30400180, -51)>>,
      << 1, 13, Dbl(62083076,  59892275, -51)>>,
      << 2,  1, Dbl(33554432,         0, -52)>>,
      << 3,  1, Dbl(53182516,  60800360, -52)>>,
      << 4,  1, Dbl(33554432,         0, -51)>>,
      << 5,  1, Dbl(38955489,  24748913, -51)>>,
      << 6,  1, Dbl(43368474,  30400180, -51)>>,
      << 7,  1, Dbl(47099599, 122946605, -51)>>,
      << 8,  1, Dbl(50331648,         0, -51)>>,
      << 9,  1, Dbl(53182516,  60800360, -51)>>,
      <<10,  1, Dbl(55732705,  24748913, -51)>>,
      <<11,  1, Dbl(58039631,  67525954, -51)>>,
      <<12,  1, Dbl(60145690,  30400180, -51)>>,
      <<13,  1, Dbl(62083076,  59892275, -51)>> }

\* the table by argument: <<c / t, |math.log2(c / t)|>>
Log2Rows == { <<FDiv(FromInt(row[1]), FromInt(row[2])), row[3]>> : row \in Log2Table }

\* |math.log2(x)| for a float x
Log2Mag(x) ==
    IF x = FromInt(1) THEN FZero
    ELSE (CHOOSE row \in Log2Rows : row[1] = x)[2]

(***************************************************************************)
(* Metrics.  A calculate method receives the commit list of the collector; *)
(* of a commit it reads the author and the files.  A defaultdict is a      *)
(* function whose domain is the set of keys touched so far; a ratio is an  *)
(* exact fraction <<numerator, denominator>> in lowest terms.              *)
(***************************************************************************)
MaxCommits == 2    \* commits of the lists of which every one is tried
MaxAuthors == 11   \* authors of a file in a history of equal shares
MaxOrdered == 3    \* elements of a set whose every iteration order is tried
MaxFiles   == 12   \* files of a history in which every author owns files

\* a file entry as _parse_commits_chunk builds it from a status and a name
Change(status, name) == ParseFileLine(<<status, TAB, name>>)[1]

MetricCommit(author, files) == [author |-> <<author>>, files |-> files]

\* the filenames of the histories, in str order
MetricFiles ==
    << <<"a.py">>, <<"b.py">>, <<"c.py">>, <<"d.py">>, <<"e.py">>, <<"f.py">>,
       <<"g.py">>, <<"h.py">>, <<"i.py">>, <<"j.py">>, <<"x.py">>, <<"y.py">>,
       <<"z.py">> >>

MetricCommits ==
    { MetricCommit("alice", << Change("A", "x.py") >>),
      MetricCommit("bob",   << Change("M", "x.py"), Change("M", "y.py") >>),
      MetricCommit("alice", << Change("M", "y.py") >>),
      MetricCommit("bob",   << Change("M", "y.py") >>),
      MetricCommit("carol", << Change("M", "z.py") >>),
      MetricCommit("bob",   <<>>),
      MetricCommit("carol", <<>>),
      MetricCommit("alice", << Change("M", "x.py"), Change("M", "x.py"),
                               Change("D", "y.py") >>) }

\* longer histories: three authors with a file each, or with one file
\* shared, or with one owner of two files; two authors sharing a file; a
\* file of four authors; a file with a main author
LongHistories ==
    { << MetricCommit("alice", << Change("A", "x.py") >>),
         MetricCommit("bob",   << Change("M", "y.py") >>),
         MetricCommit("carol", << Change("M", "z.py") >>) >>,
      << MetricCommit("alice", << Change("A", "x.py") >>),
         MetricCommit("bob",   << Change("M", "x.py"), Change("M", "y.py") >>),
         MetricCommit("carol", << Change("M", "z.py") >>) >>,
      << MetricCommit("alice", << Change("M", "x.py"), Change("M", "x.py"),
                                  Change("D", "y.py") >>),
         MetricCommit("carol", << Change("M", "z.py") >>),
         MetricCommit("bob",   <<>>) >>,
      << MetricCommit("alice", << Change("A", "x.py") >>),
         MetricCommit("bob",   << Change("M", "x.py"), Change("M", "y.py") >>),
         MetricCommit("alice", << Change("M", "y.py") >>) >>,
 << MetricCommit("alice", << Change("M", "y.py") >>),
         MetricCommit("bob",   << Change("M", "y.py") >>),
         MetricCommit("carol", << Change("M", "y.py"), Change("M", "z.py") >>),
         MetricCommit("dave",  << Change("M", "y.py") >>) >>,
      << MetricCommit("alice", << Change("M", "x.py"), Change("M", "x.py"),
                                  Change("D", "y.py") >>),
         MetricCommit("alice", << Change("M", "x.py"), Change("M", "x.py"),
                                  Change("D", "y.py") >>),
         MetricCommit("alice", << Change("M", "x.py"), Change("M", "x.py"),
                                  Change("D", "y.py") >>),
         MetricCommit("bob",   << Change("M", "x.py"), Change("M", "y.py") >>) >> }

AuthorNames ==
    <<"alice", "bob", "carol", "dave", "erin", "frank", "grace", "heidi",
      "ivan", "judy", "ken", "lea", "mia">>

\* n authors, each with one change of the one file
EqualHistory(n) ==
    [i \in 1..n |-> MetricCommit(AuthorNames[i], << Change("M", "x.py") >>)]

EqualHistories == { EqualHistory(n) : n \in 4..MaxAuthors }

\* n files: the first author owns a third of them, and each of the other
\* two thirds has an author of its own
TeamHistory(n) ==
    << MetricCommit(AuthorNames[1],
                    [k \in 1..(n \div 3) |-> Change("M", MetricFiles[k][1])]) >>
    \o [i \in 1..(n - n \div 3) |->
          MetricCommit(AuthorNames[i + 1],
                       << Change("M", MetricFiles[n \div 3 + i][1]) >>)]

TeamHistories == { TeamHistory(n) : n \in {6, 9, MaxFiles} }

Datasets ==
    SeqsUpTo(MetricCommits, MaxCommits) \cup LongHistories \cup EqualHistories
        \cup TeamHistories

\* for commit in commits: for file_change in commit["files"]
RECURSIVE Entries(_)
Entries(cs) ==
    IF cs = <<>> THEN <<>>
    ELSE [k \in 1..Len(Head(cs).files) |->
            [author |-> Head(cs).author, change |-> Head(cs).files[k]]]
         \o Entries(Tail(cs))

\* d[key] += n on a defaultdict(int)
Bump(d, key, n) == (key :> (IF key \in DOMAIN d THEN d[key] ELSE 0) + n) @@ d

\* a function as the table of its values, each computed once
Stored(f) == f @@ <<>>

RECURSIVE GCD(_, _)
GCD(a, b) == IF b = 0 THEN a ELSE GCD(b, a % b)

\* n / d for integers n >= 0 and d > 0
Frac(n, d) == <<n \div GCD(n, d), d \div GCD(n, d)>>

Zero == Frac(0, 1)

Less(p, q) == p[1] * q[2] < q[1] * p[2]

Leq(p, q) == p[1] * q[2] <= q[1] * p[2]

\* file_changes[filename] += 1 for every file entry
RECURSIVE file_changes_loop(_, _)
file_changes_loop(entries, acc) ==
    IF entries = <<>> THEN acc
    ELSE Bump(file_changes_loop(SubSeq(entries, 1, Len(entries) - 1), acc),
              entries[Len(entries)].change.filename, 1)

file_changes(cs) == file_changes_loop(Entries(cs), <<>>)

(***************************************************************************)
(* ChangeCouplingMetric.calculate                                          *)
(***************************************************************************)
FileRank(f) == CHOOSE i \in 1..Len(MetricFiles) : MetricFiles[i] = f

\* tuple(sorted([file1, file2]))
SortedPair(f, g) == IF FileRank(f) <= FileRank(g) THEN <<f, g>> ELSE <<g, f>>

\* itertools.combinations(files, 2), in its order
RECURSIVE Combinations2(_)
Combinations2(files) ==
    IF Len(files) < 2 THEN <<>>
    ELSE [k \in 1..(Len(files) - 1) |-> <<files[1], files[k + 1]>>]
         \o Combinations2(Tail(files))

\* the filename lists of the commits that have files
RECURSIVE commit_files(_)
commit_files(cs) ==
    IF cs = <<>> THEN <<>>
    ELSE (IF Head(cs).files = <<>> THEN <<>>
          ELSE << [k \in 1..Len(Head(cs).files) |-> Head(cs).files[k].filename] >>)
         \o commit_files(Tail(cs))

RECURSIVE PairLoop(_, _)
PairLoop(pairs, acc) ==
    IF pairs = <<>> THEN acc
    ELSE LET before == PairLoop(SubSeq(pairs, 1, Len(pairs) - 1), acc)
             pair   == pairs[Len(pairs)]
         IN  IF pair[1] # pair[2]
             THEN Bump(before, SortedPair(pair[1], pair[2]), 1)
             ELSE before

RECURSIVE file_coupling_loop(_, _)
file_coupling_loop(lists, acc) ==
    IF lists = <<>> THEN acc
    ELSE PairLoop(Combinations2(lists[Len(lists)]),
                  file_coupling_loop(SubSeq(lists, 1, Len(lists) - 1), acc))

file_coupling(cs) == file_coupling_loop(commit_files(cs), <<>>)

\* the result of calculate without its graph, which holds the same counts
ChangeCoupling(cs) ==
    LET fc == file_changes(cs)
        pc == file_coupling(cs)
    IN  [coupling |->
            [pair \in DOMAIN pc |->
                LET count == pc[pair]
                    union == fc[pair[1]] + fc[pair[2]] - count
                IN  [count |-> count,
                     jaccard |-> IF union > 0 THEN Frac(count, union) ELSE Zero,
                     file1_changes |-> fc[pair[1]],
                     file2_changes |-> fc[pair[2]]]],
         file_changes |-> fc]

(***************************************************************************)
(* CodeChurnMetric.calculate                                               *)
(***************************************************************************)
\* churn as the number of change events of a file
CodeChurnByEvents(cs) == file_changes(cs)

\* file_churn[filename] += additions + deletions
RECURSIVE file_churn_loop(_, _)
file_churn_loop(entries, acc) ==
    IF entries = <<>> THEN acc
    ELSE file_churn_loop(Tail(entries),
                         Bump(acc, Head(entries).change.filename,
                              Head(entries).change.additions
                                 + Head(entries).change.deletions))

CodeChurn(cs) == file_churn_loop(Entries(cs), <<>>)

(***************************************************************************)
(* DeveloperOwnershipMetric.  The authors of a file are kept in a set, and *)
(* max() returns the first of the most active authors that the iteration   *)
(* of the set yields: which one that is depends on the hashes of the run,  *)
(* so it is an input, first[filename].                                     *)
(***************************************************************************)
RECURSIVE SumFn(_)
SumFn(f) ==
    IF DOMAIN f = {} THEN 0
    ELSE LET x == CHOOSE x \in DOMAIN f : TRUE
         IN  f[x] + SumFn([y \in DOMAIN f \ {x} |-> f[y]])

\* author_changes[filename][author] += 1 and file_authors[filename].add(author)
RECURSIVE author_changes_loop(_, _)
author_changes_loop(entries, acc) ==
    IF entries = <<>> THEN acc
    ELSE author_changes_loop(Tail(entries),
                             Bump(acc, <<Head(entries).change.filename,
                                         Head(entries).author>>, 1))

author_changes(cs) == author_changes_loop(Entries(cs), <<>>)

\* author_counts of a file
AuthorCounts(ac, f) ==
    [a \in { k[2] : k \in { k \in DOMAIN ac : k[1] = f } } |-> ac[<<f, a>>]]

\* every author of the counts, whatever the count
AnyAuthor(counts) == DOMAIN counts

\* the authors max(author_counts.items(), key=count) can return
Dominants(counts) ==
    { a \in DOMAIN counts : \A b \in DOMAIN counts : counts[b] <= counts[a] }

\* the functions that pick, for every key of options, one of its options
RECURSIVE Choices(_)
Choices(options) ==
    IF DOMAIN options = {} THEN { <<>> }
    ELSE LET x    == CHOOSE x \in DOMAIN options : TRUE
             rest == Choices([y \in DOMAIN options \ {x} |-> options[y]])
         IN  { [y \in DOMAIN options |-> IF y = x THEN v ELSE r[y]] :
                  v \in options[x], r \in rest }

FirstChoices(cs) ==
    LET ac == author_changes(cs)
    IN  Choices([f \in { k[1] : k \in DOMAIN ac } |->
                    Dominants(AuthorCounts(ac, f))])

DeveloperOwnership(cs, first) ==
    LET ac == author_changes(cs)
    IN  [f \in { k[1] : k \in DOMAIN ac } |->
            LET author_counts == AuthorCounts(ac, f)
                total_changes == SumFn(author_counts)
                dominant      == first[f]
            IN  [dominant_author   |-> dominant,
                 ownership_ratio   |-> Frac(author_counts[dominant], total_changes),
                 contributor_count |-> Cardinality(DOMAIN author_counts),
                 author_changes    |-> author_counts,
                 total_changes     |-> total_changes]]

\* the thresholds met as well as exceeded
categorize_ownership_inclusive(ratio, contributors) ==
    IF Leq(Frac(8, 10), ratio) /\ contributors = 1 THEN "exclusive"
    ELSE IF Leq(Frac(8, 10), ratio) THEN "strong"
    ELSE IF Leq(Frac(5, 10), ratio) THEN "moderate"
    ELSE IF Leq(Frac(3, 10), ratio) THEN "shared"
    ELSE "dispersed"

\* _categorize_ownership.  The ratio is one division of two small counts,
\* which no rounding carries across 0.8, 0.5 or 0.3.
categorize_ownership(ratio, contributors) ==
    IF Less(Frac(8, 10), ratio) /\ contributors = 1 THEN "exclusive"
    ELSE IF Less(Frac(8, 10), ratio) THEN "strong"
    ELSE IF Less(Frac(5, 10), ratio) THEN "moderate"
    ELSE IF Less(Frac(3, 10), ratio) THEN "shared"
    ELSE "dispersed"

\* analyze_impact over the filenames of the current changes; new_file is
\* FALSE where the code sets no such key, and top_contributors, a listing of
\* author_changes, is left out
ownership_impact(current_files, metric_result) ==
    [f \in current_files |->
        IF f \notin DOMAIN metric_result
        THEN [new_file |-> TRUE, metrics |-> <<>>]
        ELSE LET d == metric_result[f]
             IN  [new_file |-> FALSE,
                  metrics |->
                     [dominant_author    |-> d.dominant_author,
                      ownership_ratio    |-> d.ownership_ratio,
                      contributor_count  |-> d.contributor_count,
                      total_changes      |-> d.total_changes,
                      ownership_category |->
                         categorize_ownership(d.ownership_ratio,
                                              d.contributor_count)]]]

\* the filenames a map of current changes may hold
CurrentFileSets ==
    { {} } \cup { {MetricFiles[i]} : i \in 1..Len(MetricFiles) }
           \cup { Range(MetricFiles) \cup { <<"new.py">> } }

(***************************************************************************)
(* ChangeEntropyMetric.calculate.  The contributions of a file are summed  *)
(* in the order in which the iteration of its set of authors yields them,  *)
(* an input; p * log2(p) is never positive, so the entropy is the sum of   *)
(* the magnitudes.                                                         *)
(***************************************************************************)
\* the orders in which a set can be iterated: every order of a small set,
\* the order of the listing names for a larger one
IterationOrders(set, names) ==
    IF Cardinality(set) <= MaxOrdered
    THEN { o \in [1..Cardinality(set) -> set] :
              \A i \in DOMAIN o, j \in DOMAIN o : i # j => o[i] # o[j] }
    ELSE { SelectSeq(names, LAMBDA e : e \in set) }

AuthorSeq == [i \in 1..Len(AuthorNames) |-> <<AuthorNames[i]>>]

EntropyOrders(cs) ==
    LET ac == author_changes(cs)
    IN  Choices([f \in { k[1] : k \in DOMAIN ac } |->
                    IterationOrders(DOMAIN AuthorCounts(ac, f), AuthorSeq)])

\* entropy after the first n contributions: entropy -= p * math.log2(p)
RECURSIVE entropy_loop(_, _, _)
entropy_loop(counts, total, n) ==
    IF n = 0 THEN FZero
    ELSE LET p == FDiv(FromInt(counts[n]), FromInt(total))
         IN  FAdd(entropy_loop(counts, total, n - 1),
                  IF FLess(FZero, p) THEN FMul(p, Log2Mag(p)) ELSE FZero)

ChangeEntropy(cs, order) ==
    LET ac == author_changes(cs)
    IN  [f \in { k[1] : k \in DOMAIN ac } |->
            LET author_contributions == AuthorCounts(ac, f)
                counts       == [i \in 1..Len(order[f]) |->
                                    author_contributions[order[f][i]]]
                total        == SumFn(author_contributions)
                entropy      == entropy_loop(counts, total, Len(counts))
                author_count == Len(counts)
                max_entropy  == Log2Mag(FromInt(author_count))
            IN  [entropy |-> IF FLess(FZero, max_entropy)
                             THEN FDiv(entropy, max_entropy) ELSE FZero,
                 contributors |-> author_count,
                 total_changes |-> total]]

(***************************************************************************)
(* HotspotAnalysisMetric.calculate                                         *)
(***************************************************************************)
HotspotAnalysis(cs) ==
    LET change_count == file_changes(cs)
        churn        == CodeChurn(cs)
    IN  [f \in DOMAIN change_count |->
            LET avg_churn == FDiv(FromInt(churn[f]), FromInt(change_count[f]))
            IN  [changes   |-> change_count[f],
                 churn     |-> churn[f],
                 avg_churn |-> avg_churn,
                 score     |-> FMul(FromInt(change_count[f]), avg_churn)]]

(***************************************************************************)
(* KnowledgeDistributionMetric.calculate.  As in DeveloperOwnership the    *)
(* dominant author of a file is first[filename]; the ownership ratios of   *)
(* the files an author dominates are summed in the order in which the      *)
(* iteration of the author's set of files yields them, orders[author].     *)
(***************************************************************************)
FHalf == FDiv(FromInt(1), FromInt(2))

\* the authors by descending bus_factor_contribution
RECURSIVE sorted_by_risk(_, _)
sorted_by_risk(authors, team) ==
    IF authors = {} THEN <<>>
    ELSE LET a == CHOOSE a \in authors :
                     \A b \in authors :
                        ~FLess(team[a].bus_factor_contribution,
                               team[b].bus_factor_contribution)
         IN  <<a>> \o sorted_by_risk(authors \ {a}, team)

\* the loop of _calculate_bus_factor from the i-th author on
RECURSIVE bus_factor_loop(_, _, _, _, _)
bus_factor_loop(by_risk, team, i, cumulative, bus_factor) ==
    IF i > Len(by_risk) THEN bus_factor
    ELSE LET sum == FAdd(cumulative, team[by_risk[i]].bus_factor_contribution)
         IN  IF ~FLess(sum, FHalf) THEN bus_factor + 1
             ELSE bus_factor_loop(by_risk, team, i + 1, sum, bus_factor + 1)

\* the loop over the share of the files an author has touched
bus_factor_by_coverage(team) ==
    LET touched == [a \in DOMAIN team |->
                      [team[a] EXCEPT !.bus_factor_contribution = team[a].coverage]]
    IN  bus_factor_loop(sorted_by_risk(DOMAIN touched, touched), touched, 1, FZero, 0)

calculate_bus_factor(team) ==
    bus_factor_loop(sorted_by_risk(DOMAIN team, team), team, 1, FZero, 0)

\* knowledge_depth after the first n files of an author
RECURSIVE depth_loop(_, _, _, _)
depth_loop(files, ownership, author, n) ==
    IF n = 0 THEN FZero
    ELSE FAdd(depth_loop(files, ownership, author, n - 1),
              IF ownership[files[n]].dominant_author = author
              THEN ownership[files[n]].ownership_ratio ELSE FZero)

KnowledgeDistribution(cs, first, orders) ==
    LET ac          == author_changes(cs)
        all_files   == { k[1] : k \in DOMAIN ac }
        all_authors == { cs[i].author : i \in 1..Len(cs) }
        file_ownership == Stored(
            [f \in all_files |->
                LET author_counts == AuthorCounts(ac, f)
                IN  [dominant_author   |-> first[f],
                     ownership_ratio   |->
                        FDiv(FromInt(author_counts[first[f]]),
                             FromInt(SumFn(author_counts))),
                     contributor_count |-> Cardinality(DOMAIN author_counts)]])
        team_knowledge == Stored(
            [a \in all_authors |->
                LET author_files == { k[1] : k \in { k \in DOMAIN ac : k[2] = a } }
                    owned == Cardinality({ f \in author_files :
                                 file_ownership[f].dominant_author = a })
                    knowledge_depth ==
                       depth_loop(orders[a], file_ownership, a, Len(orders[a]))
                IN  [coverage      |-> IF all_files = {} THEN FZero
                                       ELSE FDiv(FromInt(Cardinality(author_files)),
                                                 FromInt(Cardinality(all_files))),
                     depth         |-> IF owned > 0
                                       THEN FDiv(knowledge_depth, FromInt(owned))
                                       ELSE FZero,
                     owned_files   |-> owned,
                     files_changed |-> Cardinality(author_files),
                     commit_count  |->
                        Cardinality({ i \in 1..Len(cs) : cs[i].author = a }),
                     bus_factor_contribution |->
                        IF all_files = {} THEN FZero
                        ELSE FDiv(FromInt(owned),
                                  FromInt(Cardinality(all_files)))]])
    IN  [bus_factor  |-> calculate_bus_factor(team_knowledge),
         knowledge_redundancy |->
            IF all_files = {} THEN FZero
            ELSE FDiv(FromInt(SumFn([f \in all_files |->
                                       file_ownership[f].contributor_count])),
                      FromInt(Cardinality(all_files))),
         authors        |-> team_knowledge,
         file_ownership |-> file_ownership,
         file_count     |-> Cardinality(all_files),
         author_count   |-> Cardinality(all_authors)]

FileOrders(cs) ==
    LET ac == author_changes(cs)
    IN  Choices([a \in { cs[i].author : i \in 1..Len(cs) } |->
                    IterationOrders({ k[1] : k \in { k \in DOMAIN ac : k[2] = a } },
                                    MetricFiles)])

(***************************************************************************)
(* Impact analysis.  analyze_impact receives the map of current changes    *)
(* (filename -> entry with its total) and the result of calculate.  A call *)
(* returns a value or raises: Ok(v) or Raise(e).  A ratio of two counts is *)
(* kept exact and compared with a float literal as floats.                 *)
(***************************************************************************)
Ok(v) == [raised |-> "", value |-> v]

Raise(e) == [raised |-> e, value |-> <<>>]

\* d[k] of a dict
Item(d, k) == IF k \in DOMAIN d THEN Ok(d[k]) ELSE Raise("KeyError")

\* the float n / d
Float(ratio) == FDiv(FromInt(ratio[1]), FromInt(ratio[2]))

\* the float literals 0.0, 0.1, ... 2.0 by their tenths
Tenths == Stored([n \in 0..20 |-> FDiv(FromInt(n), FromInt(10))])

\* x > the literal tenths / 10, for a float x
Above(x, tenths) == FLess(Tenths[tenths], x)

\* the same for the float of a ratio
Exceeds(ratio, tenths) == Above(Float(ratio), tenths)

\* the loop over current_changes: the mapping of the files, unless the body
\* raises for one of them
ForEachFile(per_file) ==
    LET done == Stored(per_file)
    IN  IF \E f \in DOMAIN done : done[f].raised # ""
        THEN Raise(done[CHOOSE f \in DOMAIN done : done[f].raised # ""].raised)
        ELSE Ok([f \in DOMAIN done |-> done[f].value])

\* list.sort(key=lambda x: x["strength"], reverse=True): equal strengths
\* keep their order
RECURSIVE InsertByStrength(_, _)
InsertByStrength(sorted, x) ==
    IF sorted = <<>> THEN <<x>>
    ELSE IF Less(Head(sorted).strength, x.strength) THEN <<x>> \o sorted
         ELSE <<Head(sorted)>> \o InsertByStrength(Tail(sorted), x)

RECURSIVE SortByStrength(_)
SortByStrength(items) ==
    IF items = <<>> THEN <<>>
    ELSE InsertByStrength(SortByStrength(SubSeq(items, 1, Len(items) - 1)),
                          items[Len(items)])

\* the keys of file_coupling in the order of their first increment
RECURSIVE pair_keys_loop(_, _)
pair_keys_loop(pairs, acc) ==
    IF pairs = <<>> THEN acc
    ELSE LET before == pair_keys_loop(SubSeq(pairs, 1, Len(pairs) - 1), acc)
             item   == pairs[Len(pairs)]
             pair   == SortedPair(item[1], item[2])
         IN  IF item[1] # item[2] /\ \A i \in 1..Len(before) : before[i] # pair
             THEN Append(before, pair) ELSE before

RECURSIVE AllPairs(_)
AllPairs(lists) ==
    IF lists = <<>> THEN <<>>
    ELSE Combinations2(Head(lists)) \o AllPairs(Tail(lists))

\* the keys of the "coupling" dict that calculate returns, in its order:
\* sorted by jaccard, the highest first
coupling_keys(cs) ==
    LET keys   == pair_keys_loop(AllPairs(commit_files(cs)), <<>>)
        res    == ChangeCoupling(cs)
        sorted == SortByStrength([i \in 1..Len(keys) |->
                     [pair |-> keys[i], strength |-> res.coupling[keys[i]].jaccard]])
    IN  [i \in 1..Len(sorted) |-> sorted[i].pair]

(***************************************************************************)
(* ChangeCouplingMetric.analyze_impact, of git_metrics and of gitsect.     *)
(* keys are the keys of metric_result["coupling"] in the dict's order.     *)
(***************************************************************************)
coupling_risk_level(max_coupling, strong_unmodified) ==
    LET strength == Float(max_coupling)
    IN  IF Above(strength, 8) /\ strong_unmodified > 0 THEN "critical"
        ELSE IF Above(strength, 7) /\ strong_unmodified > 0 THEN "high"
        ELSE IF Above(strength, 5) \/ strong_unmodified > 1 THEN "medium"
        ELSE IF Above(strength, 3) THEN "elevated"
        ELSE "low"

\* the pairs that hold the file, as the loop over coupling_data meets them
CoupledInfos(filename, coupling_data, keys) ==
    LET touching == SelectSeq(keys, LAMBDA pair : filename \in {pair[1], pair[2]})
    IN  [i \in 1..Len(touching) |->
            [file     |-> IF touching[i][2] = filename THEN touching[i][1]
                          ELSE touching[i][2],
             first    |-> touching[i][1],
             strength |-> coupling_data[touching[i]].jaccard,
             count    |-> coupling_data[touching[i]].count]]

\* what the lists of coupled files hold of a pair
Info(x) == [file |-> x.file, strength |-> x.strength, count |-> x.count]

InfoList(infos) == [i \in 1..Len(infos) |-> Info(infos[i])]

\* max_coupling = max(max_coupling, coupling_strength), from 0
RECURSIVE MaxStrength(_)
MaxStrength(infos) ==
    IF infos = <<>> THEN Zero
    ELSE LET rest == MaxStrength(SubSeq(infos, 1, Len(infos) - 1))
             x    == infos[Len(infos)].strength
         IN  IF Less(rest, x) THEN x ELSE rest

\* avg_coupling += coupling_strength, from 0
RECURSIVE SumStrength(_)
SumStrength(infos) ==
    IF infos = <<>> THEN FZero
    ELSE FAdd(SumStrength(SubSeq(infos, 1, Len(infos) - 1)),
              Float(infos[Len(infos)].strength))

AvgStrength(infos) ==
    IF Len(infos) > 0 THEN FDiv(SumStrength(infos), FromInt(Len(infos))) ELSE FZero

\* sum(1 for f in coupled_files["unmodified"] if f["strength"] > 0.5)
strong_unmodified_count(infos, modified_files) ==
    Cardinality({ i \in DOMAIN infos :
                    Exceeds(infos[i].strength, 5)
                    /\ infos[i].file \notin modified_files })

\* git_metrics: analyze_impact
analyze_impact_coupling(changed, metric_result, keys) ==
    LET modified_files == DOMAIN changed
        coupling_data  == metric_result.coupling
    IN  ForEachFile(
          [filename \in modified_files |->
             IF filename \notin DOMAIN metric_result.file_changes
             THEN Ok([new_file |-> TRUE, metrics |-> <<>>,
                      coupled_files |-> [modified |-> <<>>, unmodified |-> <<>>]])
             ELSE LET infos == CoupledInfos(filename, coupling_data, keys)
                      modified ==
                         SortByStrength(SelectSeq(InfoList(infos),
                            LAMBDA x : x.file \in modified_files))
                      unmodified ==
                         SortByStrength(SelectSeq(InfoList(infos),
                            LAMBDA x : x.file \notin modified_files))
                      strong_unmodified ==
                         strong_unmodified_count(infos, modified_files)
                  IN  Ok([new_file |-> FALSE,
                          metrics |->
                             [max_coupling |-> MaxStrength(infos),
                              avg_coupling |-> AvgStrength(infos),
                              total_coupled_files |-> Len(infos),
                              modified_coupled_files |-> Len(modified),
                              unmodified_coupled_files |-> Len(unmodified),
                              strong_unmodified |-> strong_unmodified,
                              risk_level |->
                                 coupling_risk_level(MaxStrength(infos),
                                                     strong_unmodified)],
                          coupled_files |->
                             [modified |-> modified, unmodified |-> unmodified]])])

\* gitsect: _calculate_coupling_metrics
calculate_coupling_metrics(filename, coupling_data, keys) ==
    LET infos == CoupledInfos(filename, coupling_data, keys)
        strong_unmodified ==
           Cardinality({ i \in DOMAIN infos :
                           Exceeds(infos[i].strength, 5)
                           /\ filename # infos[i].first })
    IN  [max_coupling |-> MaxStrength(infos),
         avg_coupling |-> AvgStrength(infos),
         total_coupled_files |-> Len(infos),
         strong_unmodified |-> strong_unmodified,
         risk_level |-> coupling_risk_level(MaxStrength(infos), strong_unmodified)]

\* a variant that takes every coupled file for an unmodified one
get_coupled_files_all(filename, coupling_data, modified_files, keys) ==
    LET infos == InfoList(CoupledInfos(filename, coupling_data, keys))
    IN  [modified   |-> SortByStrength(SelectSeq(infos,
                           LAMBDA x : x.file \in modified_files)),
         unmodified |-> SortByStrength(infos)]

\* gitsect: _get_coupled_files
get_coupled_files(filename, coupling_data, modified_files, keys) ==
    LET infos == InfoList(CoupledInfos(filename, coupling_data, keys))
    IN  [modified   |-> SortByStrength(SelectSeq(infos,
                           LAMBDA x : x.file \in modified_files)),
         unmodified |-> SortByStrength(SelectSeq(infos,
                           LAMBDA x : x.file \notin modified_files))]

\* gitsect: _calculate_file_metrics; new_file is FALSE where the code sets
\* no such key
calculate_file_metrics(filename, metric_result, modified_files, keys) ==
    [metrics |->
        [new_file |-> filename \notin DOMAIN metric_result.file_changes]
           @@ calculate_coupling_metrics(filename, metric_result.coupling, keys),
     coupled_files |->
        get_coupled_files(filename, metric_result.coupling, modified_files, keys)]

\* gitsect: analyze_impact
analyze_impact_gitsect(changed, metric_result, keys) ==
    LET modified_files == DOMAIN changed
    IN  ForEachFile(
          [filename \in modified_files |->
              Ok(calculate_file_metrics(filename, metric_result,
                                        modified_files, keys))])

(***************************************************************************)
(* analyze_impact of CodeChurn, HotspotAnalysis, ChangeEntropy and         *)
(* KnowledgeDistribution.  new_file is FALSE where the code sets no such   *)
(* key.                                                                    *)
(***************************************************************************)
\* n / d of two ints
TrueDiv(n, d) ==
    IF d = 0 THEN Raise("ZeroDivisionError") ELSE Ok(FDiv(FromInt(n), FromInt(d)))

\* a variant whose levels start at 0.9, 0.8 and 0.6
churn_risk_level_from(percentile, current, historical) ==
    IF ~FLess(percentile, Tenths[9]) THEN "critical"
    ELSE IF ~FLess(percentile, Tenths[8]) THEN "high"
    ELSE IF ~FLess(percentile, Tenths[6]) THEN "medium"
    ELSE IF FLess(FMul(FromInt(historical), Tenths[3]),
                  FromInt(current)) THEN "elevated"
    ELSE "low"

churn_risk_level(percentile, current, historical) ==
    IF Above(percentile, 9) THEN "critical"
    ELSE IF Above(percentile, 8) THEN "high"
    ELSE IF Above(percentile, 6) THEN "medium"
    ELSE IF FLess(FMul(FromInt(historical), Tenths[3]),
                  FromInt(current)) THEN "elevated"
    ELSE "low"

\* the body of the loop of analyze_impact without its test for a new file
churn_file_impact(filename, change_data, metric_result) ==
    LET historical_churn == Item(metric_result, filename)
        current_churn    == change_data.total
        churn_percentile ==
           TrueDiv(Cardinality({ f \in DOMAIN metric_result :
                                   metric_result[f] <= historical_churn.value }),
                   Cardinality(DOMAIN metric_result))
    IN  IF historical_churn.raised # "" THEN historical_churn
        ELSE IF churn_percentile.raised # "" THEN churn_percentile
        ELSE Ok([new_file |-> FALSE,
                 metrics |->
                    [churn_percentile |-> churn_percentile.value,
                     historical_churn |-> historical_churn.value,
                     current_churn    |-> current_churn,
                     risk_level |->
                        churn_risk_level(churn_percentile.value, current_churn,
                                         historical_churn.value)]])

\* a variant that lacks the test for a new file
analyze_impact_churn_unguarded(changed, metric_result) ==
    ForEachFile([filename \in DOMAIN changed |->
                    churn_file_impact(filename, changed[filename], metric_result)])

analyze_impact_churn(changed, metric_result) ==
    ForEachFile(
       [filename \in DOMAIN changed |->
           IF filename \notin DOMAIN metric_result
           THEN Ok([new_file |-> TRUE, metrics |-> <<>>])
           ELSE churn_file_impact(filename, changed[filename], metric_result)])

hotspot_risk_level(percentile, relative_size) ==
    IF Above(percentile, 9) /\ Above(relative_size, 15) THEN "critical"
    ELSE IF Above(percentile, 8)
            \/ (Above(percentile, 7) /\ Above(relative_size, 15))
         THEN "high"
    ELSE IF Above(percentile, 6) \/ Above(relative_size, 20) THEN "medium"
    ELSE IF Above(percentile, 4) \/ Above(relative_size, 10) THEN "elevated"
    ELSE "low"

analyze_impact_hotspot(changed, metric_result) ==
    ForEachFile(
       [filename \in DOMAIN changed |->
           IF filename \notin DOMAIN metric_result
           THEN Ok([new_file |-> TRUE, metrics |-> <<>>])
           ELSE LET hotspot_data  == metric_result[filename]
                    score         == hotspot_data.score
                    current_churn == changed[filename].total
                    score_percentile ==
                       TrueDiv(Cardinality({ f \in DOMAIN metric_result :
                                   ~FLess(score, metric_result[f].score) }),
                               Cardinality(DOMAIN metric_result))
                    relative_change_size ==
                       IF FLess(FZero, hotspot_data.avg_churn)
                       THEN FDiv(FromInt(current_churn), hotspot_data.avg_churn)
                       ELSE FZero
                IN  IF score_percentile.raised # "" THEN score_percentile
                    ELSE Ok([new_file |-> FALSE,
                             metrics |->
                                [hotspot_score    |-> score,
                                 score_percentile |-> score_percentile.value,
                                 change_frequency |-> hotspot_data.changes,
                                 avg_change_size  |-> hotspot_data.avg_churn,
                                 current_change_size  |-> current_churn,
                                 relative_change_size |-> relative_change_size,
                                 risk_level |->
                                    hotspot_risk_level(score_percentile.value,
                                                       relative_change_size)]])])

\* an insight is kept as its finding: "high" or "low" change entropy
analyze_impact_entropy(changed, metric_result) ==
    ForEachFile(
       [filename \in DOMAIN changed |->
           IF filename \notin DOMAIN metric_result
           THEN Ok([new_file |-> TRUE, research_backed_insights |-> <<>>])
           ELSE LET entropy      == metric_result[filename].entropy
                    contributors == metric_result[filename].contributors
                IN  Ok([new_file |-> FALSE,
                        change_entropy |-> entropy,
                        contributors   |-> contributors,
                        research_backed_insights |->
                           IF Above(entropy, 8) /\ contributors > 3
                           THEN <<"high">>
                           ELSE IF FLess(entropy, Tenths[3])
                                   /\ contributors > 1
                                THEN <<"low">>
                                ELSE <<>>])])

calculate_team_risk_level(bus_factor, redundancy) ==
    IF bus_factor <= 1 THEN "critical"
    ELSE IF bus_factor <= 2 THEN "high"
    ELSE IF FLess(redundancy, Tenths[15]) THEN "medium"
    ELSE IF bus_factor <= 3 THEN "elevated"
    ELSE "low"

calculate_knowledge_risk(ownership_ratio, contributor_count, knowledge_depth) ==
    IF Above(ownership_ratio, 9) /\ contributor_count = 1
       /\ Above(knowledge_depth, 8) THEN "critical"
    ELSE IF Above(ownership_ratio, 8) /\ contributor_count <= 2 THEN "high"
    ELSE IF contributor_count < 3 \/ Above(ownership_ratio, 7) THEN "medium"
    ELSE IF contributor_count < 4 THEN "elevated"
    ELSE "low"

analyze_impact_knowledge(changed, metric_result) ==
    LET file_ownership == metric_result.file_ownership
        authors        == metric_result.authors
        file_metrics ==
           ForEachFile(
              [filename \in DOMAIN changed |->
                  IF filename \notin DOMAIN file_ownership
                  THEN Ok([new_file |-> TRUE, metrics |-> <<>>])
                  ELSE LET own == file_ownership[filename]
                           known == own.dominant_author \in DOMAIN authors
                           knowledge_depth ==
                              IF known THEN authors[own.dominant_author].depth
                              ELSE FZero
                           knowledge_coverage ==
                              IF known THEN authors[own.dominant_author].coverage
                              ELSE FZero
                       IN  Ok([new_file |-> FALSE,
                               metrics |->
                                  [dominant_author   |-> own.dominant_author,
                                   ownership_ratio   |-> own.ownership_ratio,
                                   contributor_count |-> own.contributor_count,
                                   author_knowledge_depth    |-> knowledge_depth,
                                   author_knowledge_coverage |-> knowledge_coverage,
                                   knowledge_risk |->
                                      calculate_knowledge_risk(own.ownership_ratio,
                                         own.contributor_count, knowledge_depth)]])])
    IN  IF file_metrics.raised # "" THEN file_metrics
        ELSE Ok([team_metrics |->
                    [bus_factor   |-> metric_result.bus_factor,
                     knowledge_redundancy |-> metric_result.knowledge_redundancy,
                     file_count   |-> metric_result.file_count,
                     author_count |-> metric_result.author_count,
                     risk_level   |->
                        calculate_team_risk_level(metric_result.bus_factor,
                           metric_result.knowledge_redundancy)],
                 file_metrics |-> file_metrics.value])

(***************************************************************************)
(* The metrics as a state machine: a metric calculates over the commit     *)
(* list it is handed.                                                      *)
(***************************************************************************)
MetricsInit ==
    /\ dataset \in Datasets
    /\ computed = "none"
    /\ result = <<>>
    /\ assessment = <<>>
    /\ current_changes = <<>>

CalculateCoupling ==
    /\ computed = "none"
    /\ computed' = "change_coupling"
    /\ result' = ChangeCoupling(dataset)
    /\ assessment' = <<>>
    /\ UNCHANGED <<dataset, current_changes>>
    /\ MetricsFrame

CalculateChurn ==
    /\ computed = "none"
    /\ computed' = "code_churn"
    /\ result' = CodeChurn(dataset)
    /\ assessment' = <<>>
    /\ UNCHANGED <<dataset, current_changes>>
    /\ MetricsFrame

CalculateOwnership ==
    /\ computed = "none"
    /\ \E first \in FirstChoices(dataset) :
          result' = DeveloperOwnership(dataset, first)
    /\ computed' = "developer_ownership"
    /\ assessment' = <<>>
    /\ UNCHANGED <<dataset, current_changes>>
    /\ MetricsFrame

AnalyzeOwnership ==
    /\ computed = "developer_ownership"
    /\ \E current_files \in CurrentFileSets :
          /\ current_changes' = [f \in current_files |-> [total |-> 1]]
          /\ assessment' = ownership_impact(current_files, result)
    /\ computed' = "developer_ownership_impact"
    /\ UNCHANGED <<dataset, result>>
    /\ MetricsFrame

CalculateEntropy ==
    /\ computed = "none"
    /\ \E order \in EntropyOrders(dataset) :
          result' = ChangeEntropy(dataset, order)
    /\ computed' = "change_entropy"
    /\ assessment' = <<>>
    /\ UNCHANGED <<dataset, current_changes>>
    /\ MetricsFrame

CalculateHotspots ==
    /\ computed = "none"
    /\ computed' = "hotspot_analysis"
    /\ result' = HotspotAnalysis(dataset)
    /\ assessment' = <<>>
    /\ UNCHANGED <<dataset, current_changes>>
    /\ MetricsFrame

CalculateKnowledge ==
    /\ computed = "none"
    /\ \E first \in FirstChoices(dataset), orders \in FileOrders(dataset) :
          result' = KnowledgeDistribution(dataset, first, orders)
    /\ computed' = "knowledge_distribution"
    /\ assessment' = <<>>
    /\ UNCHANGED <<dataset, current_changes>>
    /\ MetricsFrame

MetricsNext ==
    \/ CalculateHotspots
    \/ CalculateKnowledge
    \/ CalculateCoupling
    \/ CalculateEntropy
    \/ CalculateChurn
    \/ CalculateOwnership
    \/ AnalyzeOwnership

(***************************************************************************)
(* Impact analysis as a state machine: a metric calculates over a commit   *)
(* list and then analyzes a map of current changes against its result.     *)
(***************************************************************************)
MaxChanges == 11   \* changes of one file in a history

ImpactCommits ==
    { MetricCommit("bob",   << Change("M", "x.py"), Change("M", "y.py") >>),
      MetricCommit("carol", << Change("M", "x.py"), Change("M", "y.py"),
                               Change("M", "z.py") >>),
      MetricCommit("alice", << Change("M", "x.py"), Change("M", "x.py"),
                               Change("D", "y.py") >>) }

\* n files in commits of one file each by alice: a round over all of them,
\* one over the upper 40%, one over the upper 20% and one over the upper
\* 10%, so that churn percentiles fall on 0.6, 0.8 and 0.9
ChurnFrom == << 0, 6, 8, 9 >>

ChurnRound(n, i) ==
    LET first == (ChurnFrom[i] * n) \div 10
    IN  [k \in 1..(n - first) |->
            MetricCommit("alice", << Change("M", MetricFiles[first + k][1]) >>)]

ChurnHistory(n) ==
    ChurnRound(n, 1) \o ChurnRound(n, 2) \o ChurnRound(n, 3) \o ChurnRound(n, 4)

\* x.py changed n times, four times modified and else added; y.py changed
\* by the first eight of these commits, seven times modified and once added
HotHistory(n) ==
    [i \in 1..n |->
        MetricCommit("alice",
           << Change(IF i <= 4 THEN "M" ELSE "A", "x.py") >>
           \o (IF i <= 7 THEN << Change("M", "y.py") >>
               ELSE IF i = 8 THEN << Change("A", "y.py") >> ELSE <<>>))]

ImpactDatasets ==
    SeqsUpTo(ImpactCommits, MaxCommits)
       \cup { ChurnHistory(5), ChurnHistory(10) }
       \cup { HotHistory(n) : n \in (MaxChanges - 1)..MaxChanges }

\* the maps of current changes handed to analyze_impact for a commit list:
\* none, one file of the history or a new one, or two of them
CurrentTotals == {3, 4}

CurrentChanges(cs) ==
    LET names == DOMAIN file_changes(cs) \cup { <<"new.py">> }
    IN  { <<>> }
        \cup { [f \in {name} |-> [total |-> t]] : name \in names, t \in CurrentTotals }
        \cup (IF Cardinality(names) > 4 THEN {}
              ELSE { [f \in pair |-> [total |-> 1]] :
                        pair \in { p \in SUBSET names : Cardinality(p) = 2 } })

ImpactInit ==
    /\ dataset \in ImpactDatasets
    /\ computed = "none"
    /\ result = <<>>
    /\ assessment = <<>>
    /\ current_changes = <<>>

AnalyzeCoupling ==
    /\ computed = "change_coupling"
    /\ LET keys == coupling_keys(dataset)
       IN  \E changed \in CurrentChanges(dataset) :
              /\ current_changes' = changed
              /\ assessment' = analyze_impact_coupling(changed, result, keys)
    /\ computed' = "change_coupling_impact"
    /\ UNCHANGED <<dataset, result>>
    /\ MetricsFrame

\* the same call on the ChangeCouplingMetric of gitsect
AnalyzeCouplingGitsect ==
    /\ computed = "change_coupling"
    /\ LET keys == coupling_keys(dataset)
       IN  \E changed \in CurrentChanges(dataset) :
              /\ current_changes' = changed
              /\ assessment' = analyze_impact_gitsect(changed, result, keys)
    /\ computed' = "change_coupling_impact_gitsect"
    /\ UNCHANGED <<dataset, result>>
    /\ MetricsFrame

AnalyzeChurn ==
    /\ computed = "code_churn"
    /\ \E changed \in CurrentChanges(dataset) :
          /\ current_changes' = changed
          /\ assessment' = analyze_impact_churn(changed, result)
    /\ computed' = "code_churn_impact"
    /\ UNCHANGED <<dataset, result>>
    /\ MetricsFrame

AnalyzeHotspots ==
    /\ computed = "hotspot_analysis"
    /\ \E changed \in CurrentChanges(dataset) :
          /\ current_changes' = changed
          /\ assessment' = analyze_impact_hotspot(changed, result)
    /\ computed' = "hotspot_analysis_impact"
    /\ UNCHANGED <<dataset, result>>
    /\ MetricsFrame

AnalyzeEntropy ==
    /\ computed = "change_entropy"
    /\ \E changed \in CurrentChanges(dataset) :
          /\ current_changes' = changed
          /\ assessment' = analyze_impact_entropy(changed, result)
    /\ computed' = "change_entropy_impact"
    /\ UNCHANGED <<dataset, result>>
    /\ MetricsFrame

AnalyzeKnowledge ==
    /\ computed = "knowledge_distribution"
    /\ \E changed \in CurrentChanges(dataset) :
          /\ current_changes' = changed
          /\ assessment' = analyze_impact_knowledge(changed, result)
    /\ computed' = "knowledge_distribution_impact"
    /\ UNCHANGED <<dataset, result>>
    /\ MetricsFrame

ImpactNext ==
    \/ CalculateCoupling
    \/ CalculateChurn
    \/ CalculateHotspots
    \/ CalculateEntropy
    \/ CalculateOwnership
    \/ CalculateKnowledge
    \/ AnalyzeCoupling
    \/ AnalyzeCouplingGitsect
    \/ AnalyzeChurn
    \/ AnalyzeHotspots
    \/ AnalyzeEntropy
    \/ AnalyzeOwnership
    \/ AnalyzeKnowledge

(***************************************************************************)
(* Idle values: a specification of one component keeps the variables of    *)
(* the other components at these values.                                   *)
(***************************************************************************)
CacheIdle ==
    /\ now = 0
    /\ cache_dir = EmptyDir
    /\ repo = 0
    /\ last = NoCall
    /\ since_last = {}

ParseIdle ==
    /\ history = <<>>
    /\ data = <<>>
    /\ commits = <<>>
    /\ parse_pc = "idle"
    /\ workers = NoWorkers

DiffIdle ==
    /\ diff_output = <<>>
    /\ changes = <<>>
    /\ diff_pc = "idle"

EngineIdle ==
    /\ plugins = <<>>
    /\ active_plugins = <<>>
    /\ behaviour = NoBehaviour
    /\ invoked = <<>>
    /\ metric_results = <<>>
    /\ engine_pc = "idle"
    /\ activation = NoActivation
    /\ impact = NoImpact

MetricsIdle ==
    /\ dataset = <<>>
    /\ computed = "none"
    /\ result = <<>>
    /\ assessment = <<>>
    /\ current_changes = <<>>

ParseSpecInit == ParseInit /\ CacheIdle /\ DiffIdle /\ EngineIdle /\ MetricsIdle

SpecParse == ParseSpecInit /\ [][ParseNext]_vars

FanSpecInit == FanInit /\ CacheIdle /\ DiffIdle /\ EngineIdle /\ MetricsIdle

SpecFanOut == FanSpecInit /\ [][FanNext]_vars

CacheSpecInit == CacheInit /\ ParseIdle /\ DiffIdle /\ EngineIdle /\ MetricsIdle

SpecCache == CacheSpecInit /\ [][CacheNext]_vars

SpecKeys == CacheSpecInit /\ [][KeysNext]_vars

DiffSpecInit == DiffInit /\ CacheIdle /\ ParseIdle /\ EngineIdle /\ MetricsIdle

SpecDiff == DiffSpecInit /\ [][DiffNext]_vars

EngineSpecInit == EngineInit /\ CacheIdle /\ ParseIdle /\ DiffIdle /\ MetricsIdle

SpecEngine == EngineSpecInit /\ [][EngineNext]_vars

MetricsSpecInit == MetricsInit /\ CacheIdle /\ ParseIdle /\ DiffIdle /\ EngineIdle

SpecMetrics == MetricsSpecInit /\ [][MetricsNext]_vars

ImpactSpecInit == ImpactInit /\ CacheIdle /\ ParseIdle /\ DiffIdle /\ EngineIdle

SpecImpact == ImpactSpecInit /\ [][ImpactNext]_vars

(***************************************************************************)
(* Claims about log parsing.                                               *)
(***************************************************************************)
FileChangesOf(cs) ==
    UNION { { cs[i].files[k] : k \in 1..Len(cs[i].files) } : i \in 1..Len(cs) }

Counts(f) == <<f.additions, f.deletions>>

KeptFirstLines(raw, Kept(_)) ==
    LET sel == SelectSeq(raw, Kept) IN [i \in 1..Len(sel) |-> sel[i][1]]

Hashes(cs) == [i \in 1..Len(cs) |-> cs[i].hash]

RemoveAt(s, i) == SubSeq(s, 1, i - 1) \o SubSeq(s, i + 1, Len(s))

Unaffected(raw) ==
    \A i \in 1..Len(raw) :
        ~HasEnd(raw[i]) => commits = parse_commits_chunk(RemoveAt(raw, i))

\* C7 as stated: a raw commit yields a commit if and only if one of its lines
\* is COMMIT_END, and dropping a raw commit without that line leaves the
\* commits of the others as they are.
C7_AsStated ==
    parse_pc = "done" =>
        /\ Hashes(commits) = KeptFirstLines(RawCommits(data), HasEnd)
        /\ Unaffected(RawCommits(data))

KeptByParser(lines) == HasEnd(lines) /\ Len(lines) >= 4

\* C7 amended: a raw commit yields a commit if and only if one of its lines
\* is COMMIT_END and it has at least four lines (an empty file list does not
\* drop it); a raw commit without COMMIT_END is dropped and the commits of
\* the other raw commits are those parsed with it absent.
C7_SentinelKeeps ==
    parse_pc = "done" =>
        /\ Hashes(commits) = KeptFirstLines(RawCommits(data), KeptByParser)
        /\ Unaffected(RawCommits(data))

C7_Witness ==
    /\ parse_pc = "done"
    /\ \E i \in 1..Len(RawCommits(data)) : ~HasEnd(RawCommits(data)[i])
    /\ \E i \in 1..Len(commits) : commits[i].files = <<>>
    /\ \E i \in 1..Len(commits) : commits[i].files # <<>>

(***************************************************************************)
(* Claims about the diff-stat reader.                                      *)
(***************************************************************************)
LineParts(line) == SplitOn(line, "|")

\* the key a line is recorded under, when it has exactly one "|"
LineKey(line) == Strip(LineParts(line)[1])

Skipped(line) == Strip(line) = <<>> \/ IsSummary(line)

Records(line) == ~Skipped(line) /\ Len(LineParts(line)) = 2

LastFor(i) ==
    \A j \in (i + 1)..Len(diff_output) :
        Records(diff_output[j]) => LineKey(diff_output[j]) # LineKey(diff_output[i])

\* C8: the line "<filename> | <N> <symbols>" is recorded with total N; with
\* symbols, additions and deletions are the numbers of '+' and of '-';
\* without symbols additions is ceil(N/2) and deletions is floor(N/2).
C8_DiffStat ==
    diff_pc = "done" =>
        \A i \in 1..Len(diff_output), f \in FileNames, n \in StatTotals, g \in StatGraphs :
            (diff_output[i] = StatLine(f, n, g[1], g[2]) /\ LastFor(i)) =>
                /\ <<f>> \in DOMAIN changes
                /\ changes[<<f>>].total = n
                /\ changes[<<f>>].additions = IF g[1] + g[2] > 0 THEN g[1] ELSE (n + 1) \div 2
                /\ changes[<<f>>].deletions = IF g[1] + g[2] > 0 THEN g[2] ELSE n \div 2

C8_Witness ==
    /\ diff_pc = "done"
    /\ DOMAIN changes = { <<"foo.go">>, <<"bar.go">> }
    /\ changes[<<"foo.go">>] =
          [additions |-> 5, deletions |-> 5, total |-> 10, error |-> FALSE]
    /\ changes[<<"bar.go">>] =
          [additions |-> 4, deletions |-> 3, total |-> 7, error |-> FALSE]

StatsParts(line) == SplitWs(Strip(LineParts(line)[2]))

WellFormed(line) ==
    /\ Len(LineParts(line)) = 2
    /\ StatsParts(line) # <<>>
    /\ IsInt(StatsParts(line)[1])

Malformed(line) == ~Skipped(line) /\ ~WellFormed(line)

WithoutLine(i) == DiffLoop(EmptyMap, RemoveAt(diff_output, i))

\* C9 as stated: a malformed line adds no entry and leaves the entries of the
\* other lines as they are: the map is the one read from the output without
\* that line.
C9_AsStated ==
    diff_pc = "done" =>
        \A i \in 1..Len(diff_output) :
            Malformed(diff_output[i]) => changes = WithoutLine(i)

ZeroEntry == [additions |-> 0, deletions |-> 0, total |-> 0, error |-> FALSE]

\* C9 amended: a malformed line never stops the reading.  One that does not
\* have exactly one '|' adds no entry.  One that has exactly one '|' is
\* recorded under its filename with additions, deletions and total 0, marked
\* error when something that is not an integer follows the '|'; the entries
\* of all other filenames are the ones read without that line.
C9_MalformedLine ==
    diff_pc = "done" =>
        \A i \in 1..Len(diff_output) :
            Malformed(diff_output[i]) =>
                IF Len(LineParts(diff_output[i])) # 2
                THEN changes = WithoutLine(i)
                ELSE LET key == LineKey(diff_output[i]) IN
                     /\ DOMAIN changes = (DOMAIN WithoutLine(i)) \cup {key}
                     /\ \A k \in (DOMAIN changes) \ {key} : changes[k] = WithoutLine(i)[k]
                     /\ LastFor(i) =>
                           changes[key] = IF StatsParts(diff_output[i]) = <<>>
                                          THEN ZeroEntry ELSE ErrorEntry

C9_Witness ==
    /\ diff_pc = "done"
    /\ \E i \in 1..Len(diff_output) : diff_output[i] = BinaryLine("b.bin")
    /\ DOMAIN changes = { <<"b.bin">>, <<"foo.go">> }
    /\ changes[<<"b.bin">>] = ErrorEntry
    /\ changes[<<"foo.go">>].total = 8

(***************************************************************************)
(* Claims about the cache.                                                 *)
(***************************************************************************)
Called == last.outcome # "none"

KeyOf(cfg) == get_cache_key(cfg)

\* the file deserializes as JSON
Deserializes(f) == f.accessible /\ f.utf8 /\ json_load(f.text).kind # "error"

FreshEntry(f, clock) == f.exists /\ clock - f.mtime < FreshWindow /\ Deserializes(f)

\* C1 as stated: a call returns the cached value without a log invocation
\* when the file of its key exists, is younger than 86,400 s and deserializes
\* as JSON; in every other case it misses the cache, raises nothing because
\* of the cache and invokes the log command once.
C1_AsStated ==
    Called =>
        LET f == last.before[KeyOf(last.cfg)] IN
        IF FreshEntry(f, now)
        THEN /\ last.outcome = "hit"
             /\ last.calls = 0
             /\ last.result = json_load(f.text).val
        ELSE /\ last.outcome \in {"miss", "git_error"}
             /\ last.calls = 1

IsCall == last'.seq = last.seq + 1

Returned(call) == call.outcome \in {"hit", "miss"}

C3_ClearCache ==
    /\ "clear" \in since_last => cache_dir = EmptyDir
    /\ \A cfg \in Configs :
          clear_cache(cfg, clear_cache(cfg, cache_dir)) = clear_cache(cfg, cache_dir)
    /\ (Called /\ "clear" \in last.after) =>
          /\ last.before = EmptyDir
          /\ last.outcome = "miss"
          /\ last.calls = 1

C3_Witness ==
    /\ "clear" \in since_last
    /\ cache_dir = EmptyDir
    /\ last.saved
    /\ "clear" \in last.after
    /\ last.cfg # DefaultConfig

\* C4: a call in which the log command fails raises, has invoked the command
\* once and leaves every cache file as it was; the next call with the same
\* configuration invokes the command again (no cache file being written from
\* outside in between).
C4_GitFailure ==
    [][ IsCall =>
          /\ last'.outcome = "git_error" =>
                (last'.calls = 1 /\ last'.result = <<>> /\ cache_dir' = cache_dir)
          /\ (last.outcome = "git_error" /\ last'.cfg = last.cfg
                /\ "tamper" \notin since_last)
             => last'.calls = 1 ]_vars

C4_Witness ==
    /\ last.seq = 2
    /\ last.outcome = "git_error"
    /\ last.before[KeyOf(last.cfg)].exists
    /\ cache_dir = last.before

SameFour(a, b) ==
    /\ AbsPath(a.repo_path) = AbsPath(b.repo_path)
    /\ a.max_commits = b.max_commits
    /\ a.since_days = b.since_days
    /\ a.file_patterns = b.file_patterns

TimesIn(seq, x) == Cardinality({ i \in 1..Len(seq) : seq[i] = x })

\* C10: calculate_metrics returns a mapping whose keys are exactly the active
\* plugin ids; an id maps to None exactly when calculate of its plugin
\* raised; calculate of every active plugin is called exactly once, whichever
\* plugins raise and wherever they stand, no other plugin is called, and a
\* value that calculate returned is delivered as it was returned.
C10_Isolation ==
    engine_pc = "calculated" =>
        /\ Range(DictKeys(metric_results)) = Range(active_plugins)
        /\ Len(metric_results) = Len(active_plugins)
        /\ \A id \in Range(active_plugins) :
              /\ DictGet(metric_results, id) = None <=> behaviour[id] = "raise"
              /\ behaviour[id] # "raise" =>
                    DictGet(metric_results, id) = <<behaviour[id]>>
        /\ \A id \in PluginIds :
              TimesIn(invoked, id) = IF id \in Range(active_plugins) THEN 1 ELSE 0

C10_Witness ==
    /\ engine_pc = "calculated"
    /\ Len(active_plugins) = 3
    /\ behaviour[active_plugins[1]] = "raise"
    /\ behaviour[active_plugins[2]] = "r2"
    /\ behaviour[active_plugins[3]] = "raise"
    /\ Len(invoked) = 3

C11_WitnessMissing ==
    /\ engine_pc = "analyzed"
    /\ Len(active_plugins) = 3
    /\ ~DictHas(impact.given, active_plugins[1])
    /\ impact.invoked = <<active_plugins[2], active_plugins[3]>>
    /\ Len(impact.results) = 2

\* the ids an activate_plugins call names: all discovered ones when it has
\* no list
Named == IF activation.plugin_ids = None THEN Range(plugins)
         ELSE Range(activation.plugin_ids[1])

\* C12: after every activate_plugins call the active plugins are the
\* discovered plugins the call named (all of them when it gave no list)
\* whose construction did not fail, whatever was active before: unknown ids
\* are left out, and the active ids are a subset of the discovered ids.
C12_Activation ==
    engine_pc = "activated" =>
        /\ Range(active_plugins) = (Named \cap Range(plugins)) \ activation.failing
        /\ Range(active_plugins) \subseteq Range(plugins)
        /\ Cardinality(Range(active_plugins)) = Len(active_plugins)

C12_Witness ==
    /\ engine_pc = "activated"
    /\ activation.plugin_ids = << <<"unknown", "code_churn">> >>
    /\ active_plugins = <<"code_churn">>

C12_WitnessAll ==
    /\ engine_pc = "activated"
    /\ activation.plugin_ids = None
    /\ activation.failing = {"code_churn"}
    /\ active_plugins = <<"change_coupling", "hotspot_analysis">>

(***************************************************************************)
(* Claims about the metrics.                                               *)
(***************************************************************************)
\* the 3-commit history: A adds x.py, B modifies x.py and y.py, C modifies y.py
Scenario ==
    << MetricCommit("alice", << Change("A", "x.py") >>),
       MetricCommit("bob",   << Change("M", "x.py"), Change("M", "y.py") >>),
       MetricCommit("alice", << Change("M", "y.py") >>) >>

FilenamesOf(commit) == { commit.files[k].filename : k \in 1..Len(commit.files) }

\* the number of commits of a list that contain both files
CommitsWithBoth(cs, f, g) ==
    Cardinality({ i \in 1..Len(cs) : {f, g} \subseteq FilenamesOf(cs[i]) })

CouplingAsClaimed(cs, res) ==
    /\ \A f \in DOMAIN res.file_changes, g \in DOMAIN res.file_changes :
          f # g =>
             LET pair == SortedPair(f, g)
                 both == CommitsWithBoth(cs, f, g)
             IN  /\ pair \in DOMAIN res.coupling <=> both >= 1
                 /\ pair \in DOMAIN res.coupling =>
                       LET rec   == res.coupling[pair]
                           union == res.file_changes[f] + res.file_changes[g]
                                       - rec.count
                       IN  /\ rec.count = both
                           /\ rec.jaccard = IF union > 0 THEN Frac(rec.count, union)
                                            ELSE Zero
                           /\ Leq(Zero, rec.jaccard)
                           /\ Leq(rec.jaccard, Frac(1, 1))
    /\ \A pair \in DOMAIN res.coupling :
          /\ pair[1] # pair[2]
          /\ pair = SortedPair(pair[2], pair[1])
    /\ cs = Scenario =>
          /\ res.coupling[<< <<"x.py">>, <<"y.py">> >>].count = 1
          /\ res.coupling[<< <<"x.py">>, <<"y.py">> >>].jaccard = Frac(1, 3)

NoDuplicateFiles(cs) ==
    \A i \in 1..Len(cs) : Cardinality(FilenamesOf(cs[i])) = Len(cs[i].files)

\* C13 as stated: for every commit list ChangeCoupling keeps one record per
\* unordered pair of distinct files, whose count is the number of commits
\* containing both files and whose jaccard is count / (changes(f1) +
\* changes(f2) - count), or 0 for an empty union, and lies in [0, 1]; the
\* 3-commit history gives the pair (x.py, y.py) count 1 and jaccard 1/3.
\* A commit that lists a file twice is counted once per listing.
C13_AsStated ==
    computed = "change_coupling" => CouplingAsClaimed(dataset, result)

\* what remains of it: the statement holds of the commit lists in which no
\* commit lists a file twice
C13_DistinctFiles ==
    (computed = "change_coupling" /\ NoDuplicateFiles(dataset))
        => CouplingAsClaimed(dataset, result)

C13_ScenarioReached ==
    computed = "change_coupling" /\ dataset = Scenario

\* the positions <<commit, file entry>> of a commit list that name a file
EntriesOf(cs, f) ==
    UNION { { <<i, k>> : k \in { n \in 1..Len(cs[i].files) :
                                      cs[i].files[n].filename = f } } :
            i \in 1..Len(cs) }

\* C14 as stated: on the 3-commit history CodeChurn reports churn 2 for x.py
\* and churn 2 for y.py.
C14_AsStated ==
    (computed = "code_churn" /\ dataset = Scenario)
        => /\ result[<<"x.py">>] = 2
           /\ result[<<"y.py">>] = 2

\* C14: CodeChurn reports, for each file of the list, one for every entry
\* that adds or deletes it and two for every other entry of it (the sum of
\* the synthesized additions and deletions); on the 3-commit history that
\* is churn 3 for x.py (1 for the add, 2 for the modification) and churn 4
\* for y.py (2 for each modification).
C14_Churn ==
    computed = "code_churn" =>
       /\ DOMAIN result = UNION { FilenamesOf(dataset[i]) : i \in 1..Len(dataset) }
       /\ \A f \in DOMAIN result :
             result[f] =
                Cardinality(EntriesOf(dataset, f))
                  + Cardinality({ e \in EntriesOf(dataset, f) :
                       LET status == dataset[e[1]].files[e[2]].status
                       IN  ~StartsWith(status, "A") /\ ~StartsWith(status, "D") })
       /\ dataset = Scenario =>
             /\ result[<<"x.py">>] = 3
             /\ result[<<"y.py">>] = 4

C14_Witness ==
    /\ computed = "code_churn"
    /\ dataset = Scenario
    /\ result = [f \in { <<"x.py">>, <<"y.py">> } |-> IF f = <<"x.py">> THEN 3 ELSE 4]

\* C15 as stated: a file touched once by each of two authors has
\* ownership_ratio 0.5 and the impact analysis gives it the category
\* "moderate".
C15_AsStated ==
    computed = "developer_ownership_impact" =>
       \A f \in DOMAIN assessment \cap DOMAIN result :
          (result[f].contributor_count = 2 /\ result[f].total_changes = 2)
             => /\ assessment[f].metrics.ownership_ratio = Frac(1, 2)
                /\ assessment[f].metrics.ownership_category = "moderate"

\* C15: a file touched once by each of two authors (as y.py in the
\* 3-commit history) has ownership_ratio 0.5, and the impact analysis gives
\* it the category "shared": "moderate" takes a ratio above 0.5.
C15_EqualOwnership ==
    computed = "developer_ownership_impact" =>
       \A f \in DOMAIN assessment \cap DOMAIN result :
          (result[f].contributor_count = 2 /\ result[f].total_changes = 2)
             => /\ result[f].ownership_ratio = Frac(1, 2)
                /\ assessment[f].metrics.ownership_ratio = Frac(1, 2)
                /\ assessment[f].metrics.ownership_category = "shared"

C15_Witness ==
    /\ computed = "developer_ownership_impact"
    /\ dataset = Scenario
    /\ <<"y.py">> \in DOMAIN assessment
    /\ result[<<"y.py">>].author_changes
          = [a \in { <<"alice">>, <<"bob">> } |-> 1]
    /\ assessment[<<"y.py">>].metrics.ownership_category = "shared"

\* the largest count of a file's author_changes
MostChanges(counts) ==
    CHOOSE n \in { counts[a] : a \in DOMAIN counts } :
       \A a \in DOMAIN counts : counts[a] <= n

\* the category the claim gives a ratio and a number of contributors
CategoryAsClaimed(ratio, contributors) ==
    IF contributors = 1 THEN "exclusive"
    ELSE IF Less(Frac(8, 10), ratio) THEN "strong"
    ELSE IF Less(Frac(5, 10), ratio) THEN "moderate"
    ELSE IF Less(Frac(3, 10), ratio) THEN "shared"
    ELSE "dispersed"

\* C16: every file of the history has a record, whose ownership_ratio is
\* the changes of the author with the most changes over the total changes
\* of the file, so 1/contributor_count <= ownership_ratio <= 1; a file of
\* exactly one author has ownership_ratio 1 and the category "exclusive",
\* which no file of several authors gets; such a file is strong above 0.8,
\* moderate above 0.5, shared above 0.3 and dispersed otherwise.
C16_Ownership ==
    computed \in {"developer_ownership", "developer_ownership_impact"} =>
       /\ DOMAIN result = UNION { FilenamesOf(dataset[i]) : i \in 1..Len(dataset) }
       /\ \A f \in DOMAIN result :
             LET r == result[f] IN
             /\ r.total_changes = Cardinality(EntriesOf(dataset, f))
             /\ r.ownership_ratio
                   = Frac(MostChanges(r.author_changes), r.total_changes)
             /\ Leq(Frac(1, r.contributor_count), r.ownership_ratio)
             /\ Leq(r.ownership_ratio, Frac(1, 1))
             /\ r.contributor_count = 1 => r.ownership_ratio = Frac(1, 1)
       /\ computed = "developer_ownership_impact" =>
             \A f \in DOMAIN assessment :
                IF f \in DOMAIN result
                THEN /\ ~assessment[f].new_file
                     /\ assessment[f].metrics.ownership_category
                           = CategoryAsClaimed(result[f].ownership_ratio,
                                               result[f].contributor_count)
                     /\ assessment[f].metrics.ownership_category = "exclusive"
                           <=> result[f].contributor_count = 1
                ELSE assessment[f].new_file

\* a file of one author beside a file of four authors with equal shares
C16_Witness ==
    /\ computed = "developer_ownership_impact"
    /\ \E f \in DOMAIN assessment \cap DOMAIN result :
          /\ result[f].contributor_count = 1
          /\ result[f].ownership_ratio = Frac(1, 1)
          /\ assessment[f].metrics.ownership_category = "exclusive"
    /\ \E f \in DOMAIN assessment \cap DOMAIN result :
          /\ result[f].contributor_count = 4
          /\ result[f].ownership_ratio = Frac(1, 4)
          /\ assessment[f].metrics.ownership_category = "dispersed"

\* a file of two authors, one of whom made six of its seven changes
C16_WitnessStrong ==
    /\ computed = "developer_ownership_impact"
    /\ \E f \in DOMAIN assessment \cap DOMAIN result :
          /\ result[f].contributor_count = 2
          /\ result[f].ownership_ratio = Frac(6, 7)
          /\ assessment[f].metrics.ownership_category = "strong"
    /\ \E f \in DOMAIN assessment \cap DOMAIN result :
          /\ result[f].ownership_ratio = Frac(3, 4)
          /\ assessment[f].metrics.ownership_category = "moderate"

EntropyAsClaimed(res, f) ==
    /\ ~FLess(FromInt(1), res[f].entropy)
    /\ res[f].contributors = 1 => res[f].entropy = FZero
    /\ (/\ res[f].contributors >= 2
        /\ res[f].total_changes % res[f].contributors = 0
        /\ \A k \in DOMAIN author_changes(dataset) :
              k[1] = f => author_changes(dataset)[k]
                             = res[f].total_changes \div res[f].contributors)
          => res[f].entropy = FromInt(1)

\* C17 as stated: the normalized change entropy of every file lies in
\* [0, 1]; it is 1 for a file of two or more authors with equal change
\* counts and 0 for a file of one author.
C17_AsStated ==
    computed = "change_entropy" =>
       \A f \in DOMAIN result : EntropyAsClaimed(result, f)

\* what remains of it: the statement holds of the files of fewer than
\* eleven authors
C17_FewAuthors ==
    computed = "change_entropy" =>
       \A f \in DOMAIN result :
          result[f].contributors < 11 => EntropyAsClaimed(result, f)

C17_EqualReached ==
    /\ computed = "change_entropy"
    /\ \E f \in DOMAIN result :
          result[f].contributors = 10 /\ result[f].entropy = FromInt(1)

\* the least number of authors who own half of the files or more
MinOwners(team, file_count) ==
    CHOOSE n \in 0..Cardinality(DOMAIN team) :
       /\ \E S \in SUBSET DOMAIN team :
             /\ Cardinality(S) = n
             /\ 2 * SumFn([a \in S |-> team[a].owned_files]) >= file_count
       /\ \A S \in SUBSET DOMAIN team :
             2 * SumFn([a \in S |-> team[a].owned_files]) >= file_count
                => Cardinality(S) >= n

BusFactorAsClaimed(res) ==
    (res.file_count >= 1 /\ res.author_count >= 1) =>
       /\ res.bus_factor = MinOwners(res.authors, res.file_count)
       /\ 1 <= res.bus_factor
       /\ res.bus_factor <= res.author_count

\* C18 as stated: in a history with a file and an author, bus_factor is the
\* least size of a set of authors whose bus_factor_contribution values
\* (the files an author dominates over the files of the history) sum to
\* 0.5 or more, and 1 <= bus_factor <= author_count.
C18_AsStated ==
    computed = "knowledge_distribution" => BusFactorAsClaimed(result)

\* what remains of it: the statement holds of the histories of fewer than
\* twelve files
C18_FewFiles ==
    (computed = "knowledge_distribution" /\ result.file_count < 12)
        => BusFactorAsClaimed(result)

C18_TeamReached ==
    /\ computed = "knowledge_distribution"
    /\ result.file_count = 9
    /\ result.author_count = 7
    /\ result.bus_factor = 3

\* how many authors own how many files
OwnedCounts(team) ==
    [n \in { team[a].owned_files : a \in DOMAIN team } |->
        Cardinality({ a \in DOMAIN team : team[a].owned_files = n })]

ProfileOf(res) ==
    [author_count |-> res.author_count,
     file_count   |-> res.file_count,
     redundancy   |-> res.knowledge_redundancy,
     bus_factor   |-> res.bus_factor,
     owned        |-> OwnedCounts(res.authors)]

\* the profiles of the histories; the order in which an author's files are
\* iterated changes no field of a profile
KnowledgeProfiles ==
    UNION { { ProfileOf(KnowledgeDistribution(cs, first,
                                              CHOOSE o \in FileOrders(cs) : TRUE)) :
                first \in FirstChoices(cs) } :
            cs \in SeqsUpTo(MetricCommits, MaxCommits) \cup LongHistories }

\* C19 as stated: of two histories with the same number of authors, the
\* one whose knowledge_redundancy is less than or equal to the other's has
\* a bus_factor greater than or equal to the other's.
C19_AsStated ==
    computed = "knowledge_distribution" =>
       \A p \in KnowledgeProfiles :
          (/\ p.author_count = result.author_count
           /\ ~FLess(p.redundancy, result.knowledge_redundancy))
             => result.bus_factor >= p.bus_factor

\* C19: with the team size fixed, the bus factor follows the division of
\* the files among their dominant authors and not the knowledge
\* redundancy: two histories with the same file_count in which as many
\* authors own as many files have the same bus_factor, whatever their
\* knowledge_redundancy.
C19_BusFactorByOwnership ==
    computed = "knowledge_distribution" =>
       \A p \in KnowledgeProfiles :
          (/\ p.author_count = result.author_count
           /\ p.file_count = result.file_count
           /\ p.owned = OwnedCounts(result.authors))
             => p.bus_factor = result.bus_factor

\* three authors who own a file each, beside a history of the same
\* ownership and a higher redundancy, and one of the same redundancy and a
\* lower bus factor
C19_Witness ==
    /\ computed = "knowledge_distribution"
    /\ result.author_count = 3
    /\ result.file_count = 3
    /\ result.bus_factor = 2
    /\ result.knowledge_redundancy = FromInt(1)
    /\ \E p \in KnowledgeProfiles :
          /\ p.author_count = 3
          /\ p.file_count = 3
          /\ p.owned = OwnedCounts(result.authors)
          /\ FLess(result.knowledge_redundancy, p.redundancy)
    /\ \E p \in KnowledgeProfiles :
          /\ p.author_count = 3
          /\ p.redundancy = result.knowledge_redundancy
          /\ p.bus_factor = 1

\* a commit list with the commits at two positions exchanged; every
\* permutation of a list is a chain of such exchanges
Exchange(cs, i, j) ==
    [k \in 1..Len(cs) |-> IF k = i THEN cs[j] ELSE IF k = j THEN cs[i] ELSE cs[k]]

Exchanges(cs) == { Exchange(cs, i, j) : i \in 1..Len(cs), j \in 1..Len(cs) }

\* the results a computator can return for a commit list
Calculated(metric, cs) ==
    CASE metric = "change_coupling" -> { ChangeCoupling(cs) }
      [] metric = "code_churn" -> { CodeChurn(cs) }
      [] metric = "hotspot_analysis" -> { HotspotAnalysis(cs) }
      [] metric = "change_entropy" ->
            { ChangeEntropy(cs, order) : order \in EntropyOrders(cs) }
      [] metric = "developer_ownership" ->
            { DeveloperOwnership(cs, first) : first \in FirstChoices(cs) }
      [] metric = "knowledge_distribution" ->
            { KnowledgeDistribution(cs, first, orders) :
                 first \in FirstChoices(cs), orders \in FileOrders(cs) }

Computators ==
    { "change_coupling", "code_churn", "hotspot_analysis", "change_entropy",
      "developer_ownership", "knowledge_distribution" }

\* C20 as stated: each of the six computators returns, for a commit list
\* with two of its commits exchanged (and so for every permutation of it),
\* the one result it returned for the list itself, dominant_author and
\* bus_factor of tying authors included.
C20_AsStated ==
    computed \in Computators =>
       \A p \in Exchanges(dataset) : Calculated(computed, p) = { result }

\* the computators that only add integers per file or pair return the
\* same mapping for every order of the commits
C20_Sums ==
    computed \in { "change_coupling", "code_churn", "hotspot_analysis" } =>
       \A p \in Exchanges(dataset) : Calculated(computed, p) = { result }

(***************************************************************************)
(* Impact analysis on empty inputs and new files                           *)
(***************************************************************************)
Analyses ==
    { "change_coupling_impact", "change_coupling_impact_gitsect",
      "code_churn_impact", "developer_ownership_impact",
      "change_entropy_impact", "hotspot_analysis_impact",
      "knowledge_distribution_impact" }

\* the call of analyze_impact returned
ImpactReturned ==
    computed = "developer_ownership_impact" \/ assessment.raised = ""

\* the per-file part of what analyze_impact returned
FileImpacts ==
    IF computed = "developer_ownership_impact" THEN assessment
    ELSE IF computed = "knowledge_distribution_impact"
    THEN assessment.value.file_metrics
    ELSE assessment.value

\* the new_file mark of a file's entry
NewFile(entry) ==
    IF computed = "change_coupling_impact_gitsect" THEN entry.metrics.new_file
    ELSE entry.new_file

\* what calculate returns for no commits
EmptyResult(metric, r) ==
    CASE metric = "change_coupling" -> r.coupling = <<>> /\ r.file_changes = <<>>
      [] metric = "knowledge_distribution" ->
            /\ r.file_ownership = <<>>
            /\ r.authors = <<>>
            /\ r.bus_factor = 0
            /\ r.knowledge_redundancy = FZero
      [] OTHER -> r = <<>>

\* C21: with no commits every calculate returns an empty per-file result
\* (bus_factor and knowledge_redundancy 0); with an empty map of current
\* changes every analyze_impact returns and reports no file; a currently
\* modified file that the history does not hold is reported as a new file,
\* and the call returns.
C21_EmptyInputs ==
    /\ (computed \in Computators /\ dataset = <<>>)
          => EmptyResult(computed, result)
    /\ (computed \in Analyses /\ current_changes = <<>>)
          => (ImpactReturned /\ FileImpacts = <<>>)
    /\ computed \in Analyses
          => \A f \in DOMAIN current_changes \ DOMAIN file_changes(dataset) :
                ImpactReturned /\ NewFile(FileImpacts[f])

\* CodeChurn's analysis of a new file beside files of the history
C21_Witness ==
    /\ computed = "code_churn_impact"
    /\ dataset # <<>>
    /\ <<"new.py">> \in DOMAIN current_changes
    /\ ImpactReturned
    /\ FileImpacts[<<"new.py">>].new_file

(***************************************************************************)
(* Claims about the files of a parsed commit and about the fan-out of      *)
(* parse_commit_data                                                       *)
(***************************************************************************)
\* a commit whose message holds neither of the two tokens
PlainMessage(c) ==
    \A k \in 1..Len(c.body) : c.body[k] \notin {COMMIT_START, COMMIT_END}

\* one FileChange per name-status line that git prints for the commit
RECURSIVE NameStatusChanges(_)
NameStatusChanges(lines) ==
    IF lines = <<>> THEN <<>>
    ELSE ParseFileLine(Head(lines)) \o NameStatusChanges(Tail(lines))

\* C22 as stated: the commit parsed from a well-formed chunk has the hash,
\* author, date and subject of the chunk's first four lines, and its files
\* are exactly the FileChanges of the name-status lines git printed for the
\* commit: no line of the message body becomes a FileChange, and the
\* name-status lines are taken whichever side of COMMIT_END they are on.
C22_AsStated ==
    parse_pc = "done" =>
       \A i \in 1..Len(commits) :
          (\A j \in 1..i : PlainMessage(history[j])) =>
             /\ commits[i].hash = history[i].hash
             /\ commits[i].message = history[i].subject
             /\ commits[i].files = NameStatusChanges(history[i].changes)

(***************************************************************************)
(* Claims about the slices and the workers of parse_commit_data.           *)
(***************************************************************************)

RECURSIVE Flatten(_)
Flatten(lists) ==
    IF lists = <<>> THEN <<>> ELSE Head(lists) \o Flatten(Tail(lists))

Split == parse_pc \in {"map", "done"}

\* the slices are consecutive pieces of the list, in order, and the sizes of
\* two slices differ by at most one
Partition(chunks, lst) ==
    /\ Flatten(chunks) = lst
    /\ \A i, j \in DOMAIN chunks : Len(chunks[i]) - Len(chunks[j]) <= 1

\* C23 as stated: parse_commit_data partitions the raw chunks into exactly
\* min(available_parallelism, chunk_count) slices, consecutive, disjoint,
\* covering the list in order, with sizes that differ by at most one, so that
\* no slice is empty when there is a chunk.
C23_AsStated ==
    Split =>
        /\ Len(workers.chunks) = Min(workers.cpu, Len(RawCommits(data)))
        /\ Partition(workers.chunks, RawCommits(data))
        /\ RawCommits(data) # <<>> =>
               \A i \in DOMAIN workers.chunks : workers.chunks[i] # <<>>

\* C23, amended: parse_commit_data partitions the raw chunks into exactly
\* cpu_count slices, consecutive, disjoint, covering the list in order, with
\* sizes that differ by at most one and the longer slices first; the last
\* cpu_count - chunk_count slices are empty when there are fewer chunks than
\* CPUs, and no slice is empty otherwise.
C23_CpuCountSlices ==
    Split =>
        /\ Len(workers.chunks) = workers.cpu
        /\ Partition(workers.chunks, RawCommits(data))
        /\ \A i, j \in DOMAIN workers.chunks :
               i < j => Len(workers.chunks[i]) >= Len(workers.chunks[j])
        /\ \A i \in DOMAIN workers.chunks :
               workers.chunks[i] = <<>> <=> i > Len(RawCommits(data))

\* fewer chunks than CPUs: the second slice is empty
C23_Witness ==
    /\ Split
    /\ workers.cpu = 2
    /\ Len(RawCommits(data)) = 1
    /\ workers.chunks[2] = <<>>

\* C24: whatever the interleaving and the order in which the workers end,
\* parse_commit_data returns only after every slice was parsed, no worker
\* changes the slices or the list of another one, and the list returned is
\* the concatenation of the results of the slices in the order of the slices:
\* it is what parsing the raw chunks one after the other gives, so every
\* commit that survives parsing is there once and the result does not depend
\* on the interleaving.
C24_FanIn ==
    /\ Split =>
          /\ Flatten(workers.chunks) = RawCommits(data)
          /\ commits = MapExtend(SubSeq(workers.chunks, 1, workers.taken))
          /\ \A i \in 1..workers.taken : workers.mapped[i] = "done"
    /\ parse_pc = "done" =>
          /\ \A i \in DOMAIN workers.chunks : workers.mapped[i] = "done"
          /\ commits = parse_commits_chunk(RawCommits(data))
          /\ \A i, j \in DOMAIN commits :
                 commits[i].hash = commits[j].hash => i = j

\* the worker of the second slice ended before the worker of the first one,
\* and each of the two slices held a commit
C24_Witness ==
    /\ parse_pc = "done"
    /\ workers.order = <<2, 1>>
    /\ Len(commits) = 2

\* the tasks a slice was submitted to
TasksOf(w, i) ==
    (IF i \in DOMAIN w.submitted THEN 1 ELSE 0)
      + (IF i \in DOMAIN w.mapped THEN 1 ELSE 0)

\* C29 as stated: during one parse_commit_data call every slice is handed to
\* a worker exactly once: no slice is submitted to more than one task, and no
\* pool is created besides the one whose results are concatenated.
C29_AsStated ==
    Split =>
        /\ workers.pools = 1
        /\ \A i \in DOMAIN workers.chunks : TasksOf(workers, i) = 1

(***************************************************************************)
(* Claims about the impact analysis of ChangeCoupling.                     *)
(***************************************************************************)
CouplingAnalyses ==
    { "change_coupling_impact", "change_coupling_impact_gitsect" }

\* the pairs of the coupling map that hold the file, and the other file
PairsOf(f) == { p \in DOMAIN result.coupling : f \in {p[1], p[2]} }

OtherOf(p, f) == IF p[1] = f THEN p[2] ELSE p[1]

\* the files coupled to f that are not currently modified and whose jaccard
\* is above 0.5
StrongUnmodified(f) ==
    { p \in PairsOf(f) :
        /\ OtherOf(p, f) \notin DOMAIN current_changes
        /\ Exceeds(result.coupling[p].jaccard, 5) }

\* the currently modified files that the history holds
KnownChanged == DOMAIN current_changes \cap DOMAIN file_changes(dataset)

\* C25 as stated: in the impact analysis of ChangeCoupling, strong_unmodified
\* of a currently modified file is the number of the files coupled to it that
\* are not in the current changes and whose jaccard is above 0.5, whatever
\* the order of the two names in the pair, and the risk level of the file is
\* "critical" exactly when its maximum coupling is above 0.8 and
\* strong_unmodified is at least 1.
C25_AsStated ==
    (computed \in CouplingAnalyses /\ ImpactReturned) =>
       \A f \in KnownChanged :
          LET m == FileImpacts[f].metrics
          IN  /\ m.strong_unmodified = Cardinality(StrongUnmodified(f))
              /\ m.risk_level = "critical"
                    <=> (Exceeds(m.max_coupling, 8) /\ m.strong_unmodified >= 1)

\* the files of a list of coupled files
FilesOf(infos) == { infos[i].file : i \in DOMAIN infos }

\* C26: in the impact analysis of ChangeCoupling, for each currently modified
\* file the lists "modified" and "unmodified" of coupled files are disjoint,
\* hold together exactly the files that share a coupling pair with it, each
\* once, a neighbour is in "modified" if and only if it is a key of the map
\* of current changes, and each list is sorted by non-increasing strength.
C26_CoupledLists ==
    (computed \in CouplingAnalyses /\ ImpactReturned) =>
       \A f \in DOMAIN current_changes :
          LET lists == FileImpacts[f].coupled_files
              both  == lists.modified \o lists.unmodified
          IN  /\ FilesOf(lists.modified) \cap FilesOf(lists.unmodified) = {}
              /\ FilesOf(both) = { OtherOf(p, f) : p \in PairsOf(f) }
              /\ \A i, j \in DOMAIN both : both[i].file = both[j].file => i = j
              /\ \A i \in DOMAIN both :
                    /\ both[i].strength =
                          result.coupling[SortedPair(f, both[i].file)].jaccard
                    /\ both[i].count =
                          result.coupling[SortedPair(f, both[i].file)].count
              /\ FilesOf(lists.modified) \subseteq DOMAIN current_changes
              /\ FilesOf(lists.unmodified) \cap DOMAIN current_changes = {}
              /\ \A l \in { lists.modified, lists.unmodified } :
                    \A i, j \in DOMAIN l :
                       i < j => ~Less(l[i].strength, l[j].strength)

\* gitsect's analysis of a file with a modified neighbour and an unmodified
\* one, and git_metrics' analysis of a file with two unmodified neighbours of
\* different strengths
C26_Witness ==
    \/ /\ computed = "change_coupling_impact_gitsect"
       /\ \E f \in DOMAIN current_changes :
             /\ FileImpacts[f].coupled_files.modified # <<>>
             /\ FileImpacts[f].coupled_files.unmodified # <<>>
    \/ /\ computed = "change_coupling_impact"
       /\ \E f \in DOMAIN current_changes :
             LET l == FileImpacts[f].coupled_files.unmodified
             IN  Len(l) = 2 /\ Less(l[2].strength, l[1].strength)

(***************************************************************************)
(* Claims about the impact analysis of CodeChurn.                          *)
(***************************************************************************)
\* the files of the history whose churn is not above the churn of f
NotAbove(f) == { g \in DOMAIN result : result[g] <= result[f] }

\* the risk level by the exact ratio below / files and the exact 30 percent
ChurnRisk(below, files, current, historical) ==
    IF 10 * below > 9 * files THEN "critical"
    ELSE IF 10 * below > 8 * files THEN "high"
    ELSE IF 10 * below > 6 * files THEN "medium"
    ELSE IF 10 * current > 3 * historical THEN "elevated"
    ELSE "low"

\* C27: for a currently modified file of the history, the impact analysis of
\* CodeChurn computes churn_percentile = (number of files whose historical
\* churn is at most the churn of this file) / (number of files), so that
\* 0 < percentile <= 1, and the risk is critical if the percentile is above
\* 0.9, high if above 0.8, medium if above 0.6, else elevated if the current
\* change total is above 30% of the historical churn of the file, else low.
C27_ChurnRisk ==
    (computed = "code_churn_impact" /\ ImpactReturned) =>
       \A f \in DOMAIN current_changes \cap DOMAIN result :
          LET m     == FileImpacts[f].metrics
              below == Cardinality(NotAbove(f))
              files == Cardinality(DOMAIN result)
          IN  /\ m.churn_percentile = FDiv(FromInt(below), FromInt(files))
              /\ FLess(FZero, m.churn_percentile)
              /\ ~FLess(FromInt(1), m.churn_percentile)
              /\ m.historical_churn = result[f]
              /\ m.current_churn = current_changes[f].total
              /\ m.risk_level =
                    ChurnRisk(below, files, m.current_churn, result[f])

\* a file at the 90th percentile exactly, which is high and not critical
C27_Witness ==
    /\ computed = "code_churn_impact"
    /\ ImpactReturned
    /\ \E f \in DOMAIN current_changes \cap DOMAIN result :
          /\ 10 * Cardinality(NotAbove(f)) = 9 * Cardinality(DOMAIN result)
          /\ FileImpacts[f].metrics.risk_level = "high"

(***************************************************************************)
(* Claims about HotspotAnalysis and CodeChurn over the same commits.       *)
(***************************************************************************)
\* churn_percentile of a file as CodeChurn's analysis computes it
ChurnPercentile(churn, f) ==
    FDiv(FromInt(Cardinality({ g \in DOMAIN churn : churn[g] <= churn[f] })),
         FromInt(Cardinality(DOMAIN churn)))

\* C28 as stated: for every commit list and every file the score of
\* HotspotAnalysis (change count times average churn per change) is the total
\* churn of the file as CodeChurn computes it over the same commits, a file
\* with the higher churn has no lower score, and so the score_percentile of a
\* file in the hotspot analysis is its churn_percentile.
C28_AsStated ==
    /\ computed \in { "hotspot_analysis", "hotspot_analysis_impact" } =>
          /\ DOMAIN result = DOMAIN CodeChurn(dataset)
          /\ \A f \in DOMAIN result :
                result[f].score = FromInt(CodeChurn(dataset)[f])
          /\ \A f, g \in DOMAIN result :
                CodeChurn(dataset)[f] >= CodeChurn(dataset)[g]
                   => ~FLess(result[f].score, result[g].score)
    /\ (computed = "hotspot_analysis_impact" /\ ImpactReturned) =>
          \A f \in DOMAIN current_changes \cap DOMAIN result :
             FileImpacts[f].metrics.score_percentile
                = ChurnPercentile(CodeChurn(dataset), f)

(***************************************************************************)
(* Claim about the counts of the entries of get_current_changes.           *)
(***************************************************************************)
\* C30 as stated: every entry that get_current_changes returns and that is
\* not marked as an error has additions + deletions = total, additions >= 0
\* and deletions >= 0, whether the counts come from the '+' and '-' symbols
\* or from the even split of N.
C30_AsStated ==
    diff_pc = "done" =>
       \A f \in DOMAIN changes :
          ~changes[f].error =>
             /\ changes[f].additions + changes[f].deletions = changes[f].total
             /\ changes[f].additions >= 0
             /\ changes[f].deletions >= 0

====
